---- MODULE Spec2Model ----
(***************************************************************************)
(* ton-provider-web: the storage-provisioning orchestrator.                *)
(*                                                                         *)
(* The persistent store (leveldb) is modelled by one variable per key      *)
(* range: files ("file:"), bags ("bag:"), storeTasks ("store-task:"),      *)
(* cleanTasks ("clean-task:"), updateTasks ("update-task:") and updUser    *)
(* ("upd-user:").  A leveldb batch is one step.  The worker goroutine is   *)
(* a sequential process (wpc, wq, wcur, toUpd, answers); HTTP handlers run *)
(* concurrently with it and are split where the code releases atomicity    *)
(* (RemoveFile between its read and its write; StoreFileInfo inside the    *)
(* mutex between Has and Write).                                           *)
(*                                                                         *)
(* Time is in seconds.  The clock advances only while the worker waits     *)
(* for its ticker; a pass is short against the second granularity of the   *)
(* stored timestamps.                                                      *)
(***************************************************************************)
EXTENDS Integers, Sequences, FiniteSets, TLC

\* ------------------------------------------------------------- bounds
NumFiles == 2
NumHashes == 2
MaxTicks == 1
MaxRequests == 3
UpdateRequests == 2
MaxNameLen == 2

\* ------------------------------------------------- program constants
FileStateNew == 0
FileStateBag == 1
FileStateStored == 2
FreeStore == 900
ShortInterval == 15
LongInterval == 300
RefreshGap == 5
MaxPending == 3

NoTime == 0 - 1

\* ------------------------------------------------------------ domains
OwnerOf(i) == ((i - 1) \div 2) + 1
NameOf(i) == ((i - 1) % 2) + 1
fileKey(user, name) == <<user, name>>
Keys == {fileKey(OwnerOf(i), NameOf(i)) : i \in 1..NumFiles}
Owners == {k[1] : k \in Keys}
Hashes == 1..NumHashes
ClockSteps == {1, FreeStore + 1}

\* leveldb iterates a prefix in key order: owner first, then name
KeyLess(a, b) == a[1] < b[1] \/ (a[1] = b[1] /\ a[2] < b[2])
MinKey(S) == CHOOSE k \in S : \A j \in S : j = k \/ KeyLess(k, j)

Put(f, k, v) == [x \in DOMAIN f \cup {k} |-> IF x = k THEN v ELSE f[x]]
Del(f, k) == [x \in DOMAIN f \ {k} |-> f[x]]
Empty == [x \in {} |-> 0]

VARIABLES
    now,         \* time.Now(), in seconds
    ticks,       \* how many times the clock has advanced
    reqs,        \* how many HTTP requests have been served
    files,       \* "file:<key>"        -> FileInfo
    bags,        \* "bag:<rootHash>"    -> BagInfo
    storeTasks,  \* "store-task:<key>"
    cleanTasks,  \* "clean-task:<key>"  -> CleanupTask
    updateTasks, \* "update-task:<execAt>:<key>"
    updUser,     \* "upd-user:<owner>"  -> unix time of the last refresh
    disk,        \* the files present under storageBaseDir, <<owner, filePath>>
    mx,          \* Database.mx is held
    creating,    \* StoreFileInfo calls between Has and Write
    removing,    \* RemoveFile calls between the state check and CreateCleanTask
    resp,        \* what the last finished HTTP request returned
    wpc,         \* the worker's position
    wq,          \* the list the running pass fetched, not yet processed
    wcur,        \* what the step after a commit acts on
    toUpd,       \* doUpdate's toUpd
    answers      \* what daemon, chain, provider and store answered for each task of the pass

vars == <<now, ticks, reqs, files, bags, storeTasks, cleanTasks, updateTasks, updUser, disk,
          mx, creating, removing, resp, wpc, wq, wcur, toUpd, answers>>

dbVars == <<files, bags, storeTasks, cleanTasks, updateTasks, updUser>>
httpVars == <<mx, creating, removing, resp>>
workerVars == <<wpc, wq, wcur, toUpd, answers>>

NoCur == [kind |-> "none"]

Init ==
    /\ now = 1000
    /\ ticks = 0
    /\ reqs = 0
    /\ files = Empty
    /\ bags = Empty
    /\ storeTasks = {}
    /\ cleanTasks = Empty
    /\ updateTasks = {}
    /\ updUser = Empty
    /\ disk = {}
    /\ mx = FALSE
    /\ creating = {}
    /\ removing = {}
    /\ resp = "none"
    /\ wpc = "idle"
    /\ wq = {}
    /\ wcur = NoCur
    /\ toUpd = <<>>
    /\ answers = <<>>

\* a nil-pointer panic in the worker goroutine ends the process
Alive == wpc # "crashed"

\* ------------------------------------------------------------ records
NewFileInfo(k, at) ==
    [state |-> FileStateNew, ownerAddr |-> k[1], filePath |-> k[2],
     createdAt |-> at, bag |-> {}, provider |-> {}, contractAddr |-> <<>>]

BagOf(fi) == CHOOSE b \in fi.bag : TRUE

\* a stored value json.Unmarshal rejects, and whether a stored value parses
Garbage == [garbage |-> TRUE]
Parses(v) == "garbage" \notin DOMAIN v
ProviderOf(fi) == CHOOSE p \in fi.provider : TRUE

\* contract.PrepareV1DeployData: the address is a function of the bag and the owner
calcContractAddr(bag, owner) == <<bag.rootHash, owner>>

\* ------------------------------------------------------ HTTP: upload
\* fault: StoreFileInfo without d.mx
MutexFree_Unlocked == TRUE

MutexFree == ~mx

NumPending(owner) ==
    Cardinality({k \in DOMAIN files :
        /\ k[1] = owner
        /\ \/ files[k].provider = {}
           \/ ProviderOf(files[k]).status = "error"})

\* Service.StoreFile up to StoreFileInfo's Has check, which runs under the mutex
StoreFile(k) ==
    /\ Alive
    /\ reqs < MaxRequests
    /\ reqs' = reqs + 1
    /\ IF NumPending(k[1]) >= MaxPending
          THEN /\ resp' = "too many pending files"
               /\ UNCHANGED <<disk, mx, creating>>
          ELSE /\ MutexFree
               /\ disk' = disk \cup {<<k[1], k[2]>>}
               /\ IF k \in DOMAIN files
                     THEN /\ resp' = "already exists"
                          /\ UNCHANGED <<mx, creating>>
                     ELSE /\ mx' = TRUE
                          /\ creating' = creating \cup {[key |-> k, createdAt |-> now]}
                          /\ UNCHANGED resp
    /\ UNCHANGED <<now, ticks, dbVars, removing, workerVars>>

\* fault: StoreFileInfo's batch without the store task
StoreTasksAfterCreate_Forgotten(k) == storeTasks

StoreTasksAfterCreate(k) == storeTasks \cup {k}

\* StoreFileInfo's batch: the record and its store task; then the deferred Unlock
StoreFileInfoWrite(r, ok) ==
    /\ Alive
    /\ r \in creating
    /\ creating' = creating \ {r}
    /\ mx' = FALSE
    /\ IF ok
          THEN /\ files' = Put(files, r.key, NewFileInfo(r.key, r.createdAt))
               /\ storeTasks' = StoreTasksAfterCreate(r.key)
               /\ resp' = "ok"
          ELSE /\ UNCHANGED <<files, storeTasks>>
               /\ resp' = "write failed"
    /\ UNCHANGED <<now, ticks, reqs, bags, cleanTasks, updateTasks, updUser, disk, removing, workerVars>>

\* ------------------------------------------------------ HTTP: remove
\* fault: Service.RemoveFile without the state check
RemoveAllowed_Always(fi) == TRUE

\* the state check of Service.RemoveFile on the record it read
RemoveAllowed(fi) == ~(fi.state >= FileStateStored)

\* Service.RemoveFile up to its call of CreateCleanTask
RemoveFile(k) ==
    /\ Alive
    /\ reqs < MaxRequests
    /\ reqs' = reqs + 1
    /\ IF k \notin DOMAIN files
          THEN /\ resp' = "ok"
               /\ UNCHANGED removing
          ELSE IF RemoveAllowed(files[k])
                  THEN /\ removing' = removing \cup {k}
                       /\ UNCHANGED resp
                  ELSE /\ resp' = "file is paid and stored at provider"
                       /\ UNCHANGED removing
    /\ UNCHANGED <<now, ticks, dbVars, disk, mx, creating, workerVars>>

ForcedCleanupTask == [execAt |-> now, force |-> TRUE]

CreateCleanTaskByKey(k) == Put(cleanTasks, k, ForcedCleanupTask)

CreateCleanTask(k, ok) ==
    /\ Alive
    /\ k \in removing
    /\ removing' = removing \ {k}
    /\ cleanTasks' = IF ok THEN CreateCleanTaskByKey(k) ELSE cleanTasks
    /\ resp' = IF ok THEN "ok" ELSE "write failed"
    /\ UNCHANGED <<now, ticks, reqs, files, bags, storeTasks, updateTasks, updUser, disk,
                   mx, creating, workerVars>>

\* -------------------------------------------------------- HTTP: list
Hidden(fi) ==
    fi.state <= FileStateBag /\ fi.createdAt + FreeStore < now

ListedKeys(owner) ==
    {fileKey(owner, files[k].filePath) :
        k \in {j \in DOMAIN files : j[1] = owner /\ ~Hidden(files[j])}}

LastRefresh(owner) == IF owner \in DOMAIN updUser THEN updUser[owner] ELSE 0

\* fault: RefreshUserIfNeeded without its throttle
RefreshThrottled_Never(owner, gapSec) == FALSE

RefreshThrottled(owner, gapSec) == LastRefresh(owner) > now - gapSec

RefreshUserIfNeeded(owner, updateKeys, gapSec, ok) ==
    /\ MutexFree
    /\ IF RefreshThrottled(owner, gapSec) \/ ~ok
          THEN UNCHANGED <<updateTasks, updUser>>
          ELSE /\ updateTasks' = updateTasks \cup {<<0, k>> : k \in updateKeys}
               /\ updUser' = Put(updUser, owner, now)

\* fault: ListFilesByUser returning the refresh's error to the caller
ListFilesByUser_FailOnRefresh(owner, ok) ==
    /\ Alive
    /\ reqs < MaxRequests
    /\ reqs' = reqs + 1
    /\ RefreshUserIfNeeded(owner, ListedKeys(owner), RefreshGap, ok)
    /\ resp' = IF ok THEN "ok" ELSE "refresh failed"
    /\ UNCHANGED <<now, ticks, files, bags, storeTasks, cleanTasks, disk, mx, creating, removing,
                   workerVars>>

ListFilesByUser(owner, ok) ==
    /\ Alive
    /\ reqs < MaxRequests
    /\ reqs' = reqs + 1
    /\ RefreshUserIfNeeded(owner, ListedKeys(owner), RefreshGap, ok)
    /\ resp' = "ok"
    /\ UNCHANGED <<now, ticks, files, bags, storeTasks, cleanTasks, disk, mx, creating, removing,
                   workerVars>>

\* ------------------------------------------- the worker's passes
\* Database.GetPendingCleanupTasks: the tasks whose ExecAt has passed
\* fault: a cleanup task that does not parse fails the whole listing
GetPendingCleanupTasks_FailOnGarbage ==
    IF \E j \in DOMAIN cleanTasks : ~Parses(cleanTasks[j])
       THEN {}
       ELSE {[key |-> k, force |-> cleanTasks[k].force] :
                k \in {j \in DOMAIN cleanTasks : now > cleanTasks[j].execAt}}

GetPendingCleanupTasks ==
    {[key |-> k, force |-> cleanTasks[k].force] :
        k \in {j \in DOMAIN cleanTasks :
                  Parses(cleanTasks[j]) /\ now > cleanTasks[j].execAt}}

\* Database.GetPendingUpdateTasks: the tasks with now >= execAt
GetPendingUpdateTasks == {t \in updateTasks : now >= t[1]}

\* A pass whose list is empty does nothing: the worker goes on to the next pass
\* in the same step.  These read the store as the step leaves it.
EnterUpdate ==
    /\ toUpd' = <<>>
    /\ answers' = <<>>
    /\ wpc' = IF GetPendingUpdateTasks' = {} THEN "idle" ELSE "update"
    /\ wq' = GetPendingUpdateTasks'

EnterCleanup ==
    IF GetPendingCleanupTasks' = {}
       THEN EnterUpdate
       ELSE /\ wpc' = "cleanup"
            /\ wq' = GetPendingCleanupTasks'
            /\ UNCHANGED <<toUpd, answers>>

ContinueStore(rest) ==
    IF rest = {}
       THEN EnterCleanup
       ELSE /\ wpc' = "store"
            /\ wq' = rest
            /\ UNCHANGED <<toUpd, answers>>

ContinueCleanup(rest) ==
    IF rest = {}
       THEN EnterUpdate
       ELSE /\ wpc' = "cleanup"
            /\ wq' = rest
            /\ UNCHANGED <<toUpd, answers>>

\* ------------------------------------------------------- store pass
\* fault: every tick starts the three passes, whether or not the last has returned
worker_Reentrant ==
    /\ wpc # "crashed"
    /\ UNCHANGED <<now, ticks, reqs, dbVars, disk, httpVars, wcur>>
    /\ ContinueStore(storeTasks)

\* Service.worker: a tick of the ticker starts doStore, doCleanup, doUpdate.  The
\* one goroutine receives from ticker.C only between two rounds: a tick that
\* fires during a round waits in the channel or is dropped by the ticker.
worker ==
    /\ wpc = "idle"
    /\ UNCHANGED <<now, ticks, reqs, dbVars, disk, httpVars, wcur>>
    /\ ContinueStore(storeTasks)

NewBag(h) == [rootHash |-> h, createdAt |-> now]

\* The root hashes CreateBag may answer.  A hash is a name for content: those the
\* store knows, and one it does not know (any unknown one would do the same).
KnownHashes ==
    DOMAIN bags
      \cup {BagOf(files[k]).rootHash :
                k \in {j \in DOMAIN files : Parses(files[j]) /\ files[j].bag # {}}}
      \cup (IF wcur.kind = "removeBag" THEN {wcur.rootHash} ELSE {})

FreshHashes ==
    {h \in Hashes \ KnownHashes : \A g \in Hashes \ KnownHashes : h <= g}

BagHashes == KnownHashes \cup FreshHashes

\* fault: an existing bag record is written back with its count unchanged
BagInfoAfterStore_NoIncrement(fi, bag) ==
    IF bag.rootHash \in DOMAIN bags
       THEN [usages |-> bags[bag.rootHash].usages,
             filePath |-> bags[bag.rootHash].filePath]
       ELSE [usages |-> 1, filePath |-> fi.filePath]

\* the branch of CompleteStoreTask for a record in state New
BagInfoAfterStore(fi, bag) ==
    IF bag.rootHash \in DOMAIN bags
       THEN [usages |-> bags[bag.rootHash].usages + 1,
             filePath |-> bags[bag.rootHash].filePath]
       ELSE [usages |-> 1, filePath |-> fi.filePath]

\* fault: the store pass marks the record Stored
FileInfoAfterStore_Stored(fi, bag, contractAddr) ==
    [fi EXCEPT !.state = FileStateStored,
               !.bag = {bag},
               !.contractAddr = contractAddr,
               !.filePath = IF bag.rootHash \in DOMAIN bags
                               THEN bags[bag.rootHash].filePath
                               ELSE @]

\* fault: the record keeps its own path when the bag is known
FileInfoAfterStore_KeepPath(fi, bag, contractAddr) ==
    [fi EXCEPT !.state = FileStateBag,
               !.bag = {bag},
               !.contractAddr = contractAddr]

FileInfoAfterStore(fi, bag, contractAddr) ==
    [fi EXCEPT !.state = FileStateBag,
               !.bag = {bag},
               !.contractAddr = contractAddr,
               !.filePath = IF bag.rootHash \in DOMAIN bags
                               THEN bags[bag.rootHash].filePath
                               ELSE @]

ScheduledCleanupTask(bag, cleanAfter) ==
    [execAt |-> bag.createdAt + cleanAfter, force |-> FALSE]

\* fault: CompleteStoreTask's batch without the update task
UpdateTasksAfterStore_Forgotten(k) == updateTasks

UpdateTasksAfterStore(k) == updateTasks \cup {<<now, k>>}

StoreTasksAfterStore(k) == storeTasks \ {k}

\* fault: a batch that fails still loses the store task
CompleteStoreTask_DropOnFailure(k, bag, contractAddr, cleanAfter, ok) ==
    IF k \notin DOMAIN files \/ ~ok
       THEN /\ storeTasks' = StoreTasksAfterStore(k)
            /\ UNCHANGED <<files, bags, cleanTasks, updateTasks, updUser>>
            /\ wcur' = NoCur
       ELSE IF files[k].state = FileStateNew
               THEN /\ bags' = Put(bags, bag.rootHash, BagInfoAfterStore(files[k], bag))
                    /\ files' = Put(files, k, FileInfoAfterStore(files[k], bag, contractAddr))
                    /\ cleanTasks' = Put(cleanTasks, k, ScheduledCleanupTask(bag, cleanAfter))
                    /\ updateTasks' = UpdateTasksAfterStore(k)
                    /\ storeTasks' = StoreTasksAfterStore(k)
                    /\ UNCHANGED updUser
                    /\ wcur' = IF bag.rootHash \in DOMAIN bags
                                  THEN [kind |-> "remove", key |-> k,
                                        path |-> <<files[k].ownerAddr, files[k].filePath>>]
                                  ELSE NoCur
               ELSE /\ storeTasks' = StoreTasksAfterStore(k)
                    /\ UNCHANGED <<files, bags, cleanTasks, updateTasks, updUser>>
                    /\ wcur' = NoCur

\* fault: CompleteStoreTask without its check of the record's state
CompleteStoreTask_AnyState(k, bag, contractAddr, cleanAfter, ok) ==
    IF k \notin DOMAIN files \/ ~ok
       THEN /\ UNCHANGED dbVars
            /\ wcur' = NoCur
       ELSE /\ bags' = Put(bags, bag.rootHash, BagInfoAfterStore(files[k], bag))
            /\ files' = Put(files, k, FileInfoAfterStore(files[k], bag, contractAddr))
            /\ cleanTasks' = Put(cleanTasks, k, ScheduledCleanupTask(bag, cleanAfter))
            /\ updateTasks' = UpdateTasksAfterStore(k)
            /\ storeTasks' = StoreTasksAfterStore(k)
            /\ UNCHANGED updUser
            /\ wcur' = IF bag.rootHash \in DOMAIN bags
                          THEN [kind |-> "remove", key |-> k,
                                path |-> <<files[k].ownerAddr, files[k].filePath>>]
                          ELSE NoCur

\* Database.CompleteStoreTask; the result is removeOnDisk
CompleteStoreTask(k, bag, contractAddr, cleanAfter, ok) ==
    IF k \notin DOMAIN files \/ ~ok
       THEN /\ UNCHANGED dbVars
            /\ wcur' = NoCur
       ELSE IF files[k].state = FileStateNew
               THEN /\ bags' = Put(bags, bag.rootHash, BagInfoAfterStore(files[k], bag))
                    /\ files' = Put(files, k, FileInfoAfterStore(files[k], bag, contractAddr))
                    /\ cleanTasks' = Put(cleanTasks, k, ScheduledCleanupTask(bag, cleanAfter))
                    /\ updateTasks' = UpdateTasksAfterStore(k)
                    /\ storeTasks' = StoreTasksAfterStore(k)
                    /\ UNCHANGED updUser
                    /\ wcur' = IF bag.rootHash \in DOMAIN bags
                                  THEN [kind |-> "remove", key |-> k,
                                        path |-> <<files[k].ownerAddr, files[k].filePath>>]
                                  ELSE NoCur
               ELSE /\ storeTasks' = StoreTasksAfterStore(k)
                    /\ UNCHANGED <<files, bags, cleanTasks, updateTasks, updUser>>
                    /\ wcur' = NoCur

\* one iteration of doStore's loop up to CompleteStoreTask; bagged tells whether
\* CreateBag, GetBag and calcContractAddr all answered.  A record that does not
\* parse is GetFileByKey's error: the loop continues.
doStore(bagged, h, ok) ==
    /\ wpc = "store"
    /\ wq # {}
    /\ LET k == MinKey(wq) IN
       IF k \notin DOMAIN files
          THEN /\ wpc' = "crashed"
               /\ UNCHANGED <<now, dbVars, wq, wcur, toUpd, answers>>
          ELSE /\ IF bagged /\ Parses(files[k])
                     THEN CompleteStoreTask(k, NewBag(h),
                              calcContractAddr(NewBag(h), files[k].ownerAddr), FreeStore, ok)
                     ELSE UNCHANGED <<dbVars, wcur>>
               /\ UNCHANGED now
               /\ IF wcur'.kind = "remove"
                     THEN /\ wpc' = "store_remove"
                          /\ wq' = wq \ {k}
                          /\ UNCHANGED <<toUpd, answers>>
                     ELSE ContinueStore(wq \ {k})
    /\ UNCHANGED <<ticks, reqs, disk, httpVars>>

\* os.Remove(fullFilePath) after the commit
doStoreRemove(ok) ==
    /\ wpc = "store_remove"
    /\ disk' = IF ok THEN disk \ {wcur.path} ELSE disk
    /\ wcur' = NoCur
    /\ UNCHANGED <<now, ticks, reqs, dbVars, httpVars>>
    /\ ContinueStore(wq)

\* ----------------------------------------------------- cleanup pass
MinCleanupTask(S) == CHOOSE t \in S : t.key = MinKey({u.key : u \in S})

\* fault: doCleanup without the state check
ShouldRemove_ForceOnly(t) == t.force

\* rm in doCleanup
ShouldRemove(t) ==
    t.force \/ (t.key \in DOMAIN files /\ files[t.key].state <= FileStateBag)

\* fault: removeFile whenever the record has a bag
RemoveFileFlag_AnyUsage(k, remove) ==
    /\ k \in DOMAIN files
    /\ remove
    /\ files[k].bag # {}

\* CompleteCleanTask's removeFile: the bag's last usage goes
RemoveFileFlag(k, remove) ==
    /\ k \in DOMAIN files
    /\ remove
    /\ files[k].bag # {}
    /\ BagOf(files[k]).rootHash \in DOMAIN bags
    /\ bags[BagOf(files[k]).rootHash].usages - 1 <= 0

BagsAfterClean(k, remove) ==
    IF k \in DOMAIN files /\ remove /\ files[k].bag # {}
          /\ BagOf(files[k]).rootHash \in DOMAIN bags
       THEN LET h == BagOf(files[k]).rootHash IN
            IF bags[h].usages - 1 <= 0
               THEN Del(bags, h)
               ELSE Put(bags, h, [bags[h] EXCEPT !.usages = @ - 1])
       ELSE bags

FilesAfterClean(k, remove) ==
    IF k \in DOMAIN files /\ remove THEN Del(files, k) ELSE files

\* Database.CompleteCleanTask: one batch
CompleteCleanTask(k, remove, ok) ==
    IF ok
       THEN /\ bags' = BagsAfterClean(k, remove)
            /\ files' = FilesAfterClean(k, remove)
            /\ cleanTasks' = Del(cleanTasks, k)
            /\ UNCHANGED <<storeTasks, updateTasks, updUser>>
       ELSE UNCHANGED dbVars

\* one iteration of doCleanup's loop up to CompleteCleanTask; a record that does
\* not parse is GetFileByKey's error: the loop continues
doCleanup(ok) ==
    /\ wpc = "cleanup"
    /\ wq # {}
    /\ LET t == MinCleanupTask(wq)
           rm == ShouldRemove(t)
           del == ok /\ RemoveFileFlag(t.key, rm)
       IN IF t.key \in DOMAIN files /\ ~Parses(files[t.key])
             THEN /\ UNCHANGED <<now, dbVars, wcur>>
                  /\ ContinueCleanup(wq \ {t})
             ELSE /\ CompleteCleanTask(t.key, rm, ok)
                  /\ UNCHANGED now
                  /\ IF del /\ t.key \in DOMAIN files
                        THEN /\ wpc' = "cleanup_removeBag"
                             /\ wq' = wq \ {t}
                             /\ wcur' = [kind |-> "removeBag", key |-> t.key,
                                         rootHash |-> BagOf(files[t.key]).rootHash]
                             /\ UNCHANGED <<toUpd, answers>>
                        ELSE /\ UNCHANGED wcur
                             /\ ContinueCleanup(wq \ {t})
    /\ UNCHANGED <<ticks, reqs, disk, httpVars>>

\* Client.RemoveBag after the commit; its failure is logged
doCleanupRemoveBag(ok) ==
    /\ wpc = "cleanup_removeBag"
    /\ wcur' = NoCur
    /\ UNCHANGED <<now, ticks, reqs, dbVars, disk, httpVars>>
    /\ ContinueCleanup(wq)

\* ------------------------------------------------------ update pass
MinUpdateTask(S) ==
    CHOOSE t \in S : \A u \in S :
        u = t \/ t[1] < u[1] \/ (t[1] = u[1] /\ KeyLess(t[2], u[2]))

\* what the storage daemon, the chain and the provider answer for one task
Outcomes ==
    {"bagError", "bagNotFound", "notDeployed", "providerNotFound", "chainError",
     "infoError", "active", "errorInternal", "errorOther"}

\* the answers that reach each kind of result: retry, forced cleanup, Stored
CoreOutcomes == {"bagError", "bagNotFound", "active"}

\* fault: a missing contract asks for cleanup whatever the state
CleanupOutcome_AnyState(fi, out) ==
    out \in {"bagNotFound", "notDeployed", "providerNotFound"}

CleanupOutcome(fi, out) ==
    \/ out = "bagNotFound"
    \/ out \in {"notDeployed", "providerNotFound"} /\ fi.state >= FileStateStored

\* the error has lasted longer than freeStore
ErrorExpired(fi) ==
    /\ fi.provider # {}
    /\ ProviderOf(fi).errorSince # NoTime
    /\ now - ProviderOf(fi).errorSince > FreeStore

\* fault: errorSince restarts at every observation
ErrorSince_Restart(fi, out) ==
    IF out = "errorOther" THEN now ELSE NoTime

\* fault: errorSince without the exception for "internal provider error"
ErrorSince_AnyReason(fi, out) ==
    IF out \in {"errorOther", "errorInternal"}
       THEN IF fi.provider # {} /\ ProviderOf(fi).errorSince # NoTime
               THEN ProviderOf(fi).errorSince
               ELSE now
       ELSE NoTime

\* errorSince in doUpdate
ErrorSince(fi, out) ==
    IF out = "errorOther"
       THEN IF fi.provider # {} /\ ProviderOf(fi).errorSince # NoTime
               THEN ProviderOf(fi).errorSince
               ELSE now
       ELSE NoTime

\* the ProviderInfo doUpdate builds; Balance, PerDay, Left and LastUpdated are
\* display values no pass reads
NewProviderInfo(fi, out) ==
    [status |-> IF out = "active" THEN "active" ELSE "error",
     reason |-> CASE out = "errorInternal" -> "internal provider error"
                  [] out = "errorOther" -> "other"
                  [] OTHER -> "",
     errorSince |-> ErrorSince(fi, out)]

\* fault: a task that is to be retried is dropped
UpdateTaskResult_NoRetry(task, next, provider) ==
    [key |-> task[2], execAt |-> task[1],
     nextExecAt |-> IF task[1] = 0 \/ next = now + ShortInterval THEN NoTime ELSE next,
     providerInfo |-> provider]

\* fault: the deferred function without its test of the due time
UpdateTaskResult_Repeating(task, next, provider) ==
    [key |-> task[2], execAt |-> task[1], nextExecAt |-> next, providerInfo |-> provider]

UpdateTaskResult(task, next, provider) ==
    [key |-> task[2], execAt |-> task[1],
     nextExecAt |-> IF task[1] = 0 THEN NoTime ELSE next,
     providerInfo |-> provider]

\* fault: a bag the daemon no longer has is not turned into a cleanup
CallsCreateCleanTask_KeepMissingBag(task, out) ==
    /\ task[2] \in DOMAIN files
    /\ files[task[2]].bag # {}
    /\ \/ out \in {"notDeployed", "providerNotFound"}
             /\ files[task[2]].state >= FileStateStored
       \/ out = "errorOther" /\ ErrorExpired(files[task[2]])

\* whether this run of the closure calls CreateCleanTaskByKey
CallsCreateCleanTask(task, out) ==
    /\ task[2] \in DOMAIN files
    /\ Parses(files[task[2]])
    /\ files[task[2]].bag # {}
    /\ \/ CleanupOutcome(files[task[2]], out)
       \/ out = "errorOther" /\ ErrorExpired(files[task[2]])

\* fault: the closure without its fi.Bag == nil return
UpdateResult_NoBagCheck(task, out, ok) ==
    LET key == task[2]
        short == now + ShortInterval
    IN IF key \notin DOMAIN files
          THEN UpdateTaskResult(task, NoTime, {})
       ELSE LET fi == files[key] IN
            IF out \in {"bagError", "chainError", "infoError"}
               THEN UpdateTaskResult(task, short, fi.provider)
            ELSE IF CleanupOutcome(fi, out)
               THEN UpdateTaskResult(task, IF ok THEN NoTime ELSE short, fi.provider)
            ELSE IF out \in {"notDeployed", "providerNotFound"}
               THEN UpdateTaskResult(task, short, fi.provider)
            ELSE IF out = "errorOther" /\ ErrorExpired(fi)
               THEN UpdateTaskResult(task, NoTime, fi.provider)
            ELSE UpdateTaskResult(task, now + LongInterval, {NewProviderInfo(fi, out)})

\* the closure doUpdate runs for one task: res as the deferred append sees it
UpdateResult(task, out, ok) ==
    LET key == task[2]
        short == now + ShortInterval
    IN IF key \notin DOMAIN files
          THEN UpdateTaskResult(task, NoTime, {})
       ELSE IF ~Parses(files[key])
          THEN UpdateTaskResult(task, short, {})
       ELSE IF files[key].bag = {}
          THEN UpdateTaskResult(task, short, {})
       ELSE LET fi == files[key] IN
            IF out \in {"bagError", "chainError", "infoError"}
               THEN UpdateTaskResult(task, short, fi.provider)
            ELSE IF CleanupOutcome(fi, out)
               THEN UpdateTaskResult(task, IF ok THEN NoTime ELSE short, fi.provider)
            ELSE IF out \in {"notDeployed", "providerNotFound"}
               THEN UpdateTaskResult(task, short, fi.provider)
            ELSE IF out = "errorOther" /\ ErrorExpired(fi)
               THEN UpdateTaskResult(task, NoTime, fi.provider)
            ELSE UpdateTaskResult(task, now + LongInterval, {NewProviderInfo(fi, out)})

\* whether the closure gets as far as asking the daemon for the bag of the task
AsksDaemon(task) ==
    /\ task[2] \in DOMAIN files
    /\ Parses(files[task[2]])
    /\ files[task[2]].bag # {}

\* What the outside world answers during one pass over the list: for each task
\* what the daemon, the chain and the provider answer (out, "none" when the closure
\* returns before it asks) and whether CreateCleanTaskByKey's write succeeds (ok,
\* which is TRUE when nothing is written).
UpdateEnvs(outs) ==
    IF wpc = "update"
       THEN {env \in [wq -> [out : outs \cup {"none"}, ok : BOOLEAN]] :
                \A t \in wq :
                    /\ (env[t].out = "none") <=> ~AsksDaemon(t)
                    /\ CallsCreateCleanTask(t, env[t].out) \/ env[t].ok}
       ELSE {}

\* doUpdate's loop over the list.  The loop reads the records and writes cleanup
\* tasks at once; everything else waits in toUpd for CompleteUpdateTasks.  toUpd
\* holds the result of each task; the order of the list is the order of the tasks.
doUpdate(env) ==
    /\ wpc = "update"
    /\ wq # {}
    /\ toUpd' = [t \in wq |-> UpdateResult(t, env[t].out, env[t].ok)]
    /\ answers' = env
    /\ LET cleaned == {t[2] : t \in {u \in wq :
                          CallsCreateCleanTask(u, env[u].out) /\ env[u].ok}}
       IN cleanTasks' = [k \in DOMAIN cleanTasks \cup cleaned |->
                            IF k \in cleaned THEN ForcedCleanupTask ELSE cleanTasks[k]]
    /\ wq' = {}
    /\ UNCHANGED <<now, ticks, reqs, files, bags, storeTasks, updateTasks, updUser, disk,
                   httpVars, wpc, wcur>>

\* fault: CompleteUpdateTasks without fi.State = FileStateStored
FileAfterUpdate_KeepState(fi, r) ==
    [fi EXCEPT !.provider = r.providerInfo]

\* fault: CompleteUpdateTasks moving the record one state on
FileAfterUpdate_NextState(fi, r) ==
    [fi EXCEPT !.state = @ + 1, !.provider = r.providerInfo]

\* CompleteUpdateTasks reads each record from the store, not from its batch
FileAfterUpdate(fi, r) ==
    [fi EXCEPT !.state = FileStateStored, !.provider = r.providerInfo]

\* the loop of CompleteUpdateTasks over the results rs of the tasks left in S
RECURSIVE FilesAfterUpdates(_, _, _)
FilesAfterUpdates(f, rs, S) ==
    IF S = {} THEN f
    ELSE LET t == MinUpdateTask(S)
             r == rs[t]
         IN FilesAfterUpdates(
                IF r.providerInfo # {} /\ r.key \in DOMAIN files
                   THEN Put(f, r.key, FileAfterUpdate(files[r.key], r))
                   ELSE f,
                rs, S \ {t})

RECURSIVE TasksAfterUpdates(_, _, _)
TasksAfterUpdates(ts, rs, S) ==
    IF S = {} THEN ts
    ELSE LET t == MinUpdateTask(S)
             r == rs[t]
             del == ts \ {<<r.execAt, r.key>>}
         IN TasksAfterUpdates(
                IF r.nextExecAt # NoTime THEN del \cup {<<r.nextExecAt, r.key>>} ELSE del,
                rs, S \ {t})

\* fault: CompleteUpdateTasks without the delete of the old task
CompleteUpdateTasks_KeepOld(tasks, ok) ==
    IF ok
       THEN /\ files' = FilesAfterUpdates(files, tasks, DOMAIN tasks)
            /\ updateTasks' =
                  updateTasks \cup TasksAfterUpdates(updateTasks, tasks, DOMAIN tasks)
            /\ UNCHANGED <<bags, storeTasks, cleanTasks, updUser>>
       ELSE UNCHANGED dbVars

\* Database.CompleteUpdateTasks: one batch for the whole pass
CompleteUpdateTasks(tasks, ok) ==
    IF ok
       THEN /\ files' = FilesAfterUpdates(files, tasks, DOMAIN tasks)
            /\ updateTasks' = TasksAfterUpdates(updateTasks, tasks, DOMAIN tasks)
            /\ UNCHANGED <<bags, storeTasks, cleanTasks, updUser>>
       ELSE UNCHANGED dbVars

doUpdateCommit(ok) ==
    /\ wpc = "update"
    /\ wq = {}
    /\ CompleteUpdateTasks(toUpd, ok)
    /\ toUpd' = <<>>
    /\ answers' = <<>>
    /\ wpc' = "idle"
    /\ UNCHANGED <<now, ticks, reqs, disk, httpVars, wq, wcur>>

\* ------------------------------------------------------------ clock
Tick(d) ==
    /\ wpc = "idle"
    /\ ticks < MaxTicks
    /\ now' = now + d
    /\ ticks' = ticks + 1
    /\ UNCHANGED <<reqs, dbVars, disk, httpVars, workerVars>>

\* ------------------------------------------------------ the program
Next ==
    \/ \E k \in Keys : StoreFile(k)
    \/ \E r \in creating, ok \in BOOLEAN : StoreFileInfoWrite(r, ok)
    \/ \E k \in Keys : RemoveFile(k)
    \/ \E k \in removing, ok \in BOOLEAN : CreateCleanTask(k, ok)
    \/ \E o \in Owners, ok \in BOOLEAN : ListFilesByUser(o, ok)
    \/ worker
    \/ \E bagged \in BOOLEAN, h \in BagHashes, ok \in BOOLEAN : doStore(bagged, h, ok)
    \/ \E ok \in BOOLEAN : doStoreRemove(ok)
    \/ \E ok \in BOOLEAN : doCleanup(ok)
    \/ \E ok \in BOOLEAN : doCleanupRemoveBag(ok)
    \/ \E env \in UpdateEnvs(CoreOutcomes) : doUpdate(env)
    \/ \E ok \in BOOLEAN : doUpdateCommit(ok)
    \/ \E d \in ClockSteps : Tick(d)

Spec == Init /\ [][Next]_vars

\* The same program with every answer the daemon, the chain and the provider can
\* give to the update pass, for UpdateRequests requests.
NextUpdate ==
    \/ reqs < UpdateRequests /\ \E k \in Keys : StoreFile(k)
    \/ \E r \in creating, ok \in BOOLEAN : StoreFileInfoWrite(r, ok)
    \/ reqs < UpdateRequests /\ \E k \in Keys : RemoveFile(k)
    \/ \E k \in removing, ok \in BOOLEAN : CreateCleanTask(k, ok)
    \/ reqs < UpdateRequests /\ \E o \in Owners, ok \in BOOLEAN : ListFilesByUser(o, ok)
    \/ worker
    \/ \E bagged \in BOOLEAN, h \in BagHashes, ok \in BOOLEAN : doStore(bagged, h, ok)
    \/ \E ok \in BOOLEAN : doStoreRemove(ok)
    \/ \E ok \in BOOLEAN : doCleanup(ok)
    \/ \E ok \in BOOLEAN : doCleanupRemoveBag(ok)
    \/ \E env \in UpdateEnvs(Outcomes) : doUpdate(env)
    \/ \E ok \in BOOLEAN : doUpdateCommit(ok)
    \/ \E d \in ClockSteps : Tick(d)

SpecUpdate == Init /\ [][NextUpdate]_vars

\* The same program with the clock advancing by about the refresh gap: one second
\* less, and exactly the gap.  Uploads and removals are among the first
\* UpdateRequests requests.
RefreshSteps == {RefreshGap - 1, RefreshGap}

NextRefresh ==
    \/ reqs < UpdateRequests /\ \E k \in Keys : StoreFile(k)
    \/ \E r \in creating, ok \in BOOLEAN : StoreFileInfoWrite(r, ok)
    \/ reqs < UpdateRequests /\ \E k \in Keys : RemoveFile(k)
    \/ \E k \in removing, ok \in BOOLEAN : CreateCleanTask(k, ok)
    \/ \E o \in Owners, ok \in BOOLEAN : ListFilesByUser(o, ok)
    \/ worker
    \/ \E bagged \in BOOLEAN, h \in BagHashes, ok \in BOOLEAN : doStore(bagged, h, ok)
    \/ \E ok \in BOOLEAN : doStoreRemove(ok)
    \/ \E ok \in BOOLEAN : doCleanup(ok)
    \/ \E ok \in BOOLEAN : doCleanupRemoveBag(ok)
    \/ \E env \in UpdateEnvs(CoreOutcomes) : doUpdate(env)
    \/ \E ok \in BOOLEAN : doUpdateCommit(ok)
    \/ \E d \in RefreshSteps : Tick(d)

SpecRefresh == Init /\ [][NextRefresh]_vars

\* ------------------------------------- the store's operations on any store
\* The worker's round started on a store drawn from a bounded set, to apply
\* CompleteStoreTask and CompleteUpdateTasks to records in every state.
\* FileInfo of key k in state st, with the bag of root hash h from Bagged on
RecordIn(k, st, h) ==
    LET bag == NewBag(h)
        bagged == [NewFileInfo(k, now) EXCEPT !.state = FileStateBag,
                                              !.bag = {bag},
                                              !.contractAddr = calcContractAddr(bag, k[1])]
    IN CASE st = FileStateNew -> NewFileInfo(k, now)
         [] st = FileStateBag -> bagged
         [] OTHER -> [bagged EXCEPT !.state = FileStateStored,
                                    !.provider = {NewProviderInfo(bagged, "active")}]

\* BagInfo of every root hash the records of f carry
BagsOf(f) ==
    LET with(h) == {k \in DOMAIN f :
                       Parses(f[k]) /\ f[k].bag # {} /\ BagOf(f[k]).rootHash = h}
    IN [h \in {g \in Hashes : with(g) # {}} |->
           [usages |-> Cardinality(with(h)), filePath |-> MinKey(with(h))[2]]]

InitDatabase ==
    /\ now = 1000
    /\ ticks = MaxTicks
    /\ reqs = MaxRequests
    /\ \E D \in SUBSET Keys :
          \E st \in [D -> {FileStateNew, FileStateBag, FileStateStored}], hs \in [D -> Hashes] :
              files = [k \in D |->
                          RecordIn(k, st[k], IF st[k] = FileStateNew THEN 1 ELSE hs[k])]
    /\ bags = BagsOf(files)
    /\ storeTasks \in {S \in SUBSET Keys : DOMAIN files \subseteq S}
    /\ cleanTasks = [k \in {j \in DOMAIN files : files[j].state = FileStateBag} |->
                        ScheduledCleanupTask(BagOf(files[k]), FreeStore)]
    /\ updateTasks \in {S \in SUBSET ({0, now} \X Keys) : Cardinality(S) <= 1}
    /\ updUser = Empty
    /\ disk = {<<k[1], k[2]>> : k \in DOMAIN files}
    /\ mx = FALSE
    /\ creating = {}
    /\ removing = {}
    /\ resp = "none"
    /\ IF storeTasks # {}
          THEN wpc = "store" /\ wq = storeTasks
          ELSE wpc = "update" /\ wq = GetPendingUpdateTasks /\ wq # {}
    /\ wcur = NoCur
    /\ toUpd = <<>>
    /\ answers = <<>>

\* CompleteUpdateTasks called with the results of the pass, which stay in toUpd;
\* wcur counts the calls
CompleteUpdateTasksAgain(ok) ==
    /\ wpc = "update"
    /\ wq = {}
    /\ toUpd # <<>>
    /\ IF wcur.kind = "applied" THEN wcur.times < 2 ELSE TRUE
    /\ CompleteUpdateTasks(toUpd, ok)
    /\ wcur' = IF ~ok THEN wcur
               ELSE [kind |-> "applied",
                     times |-> IF wcur.kind = "none" THEN 1 ELSE wcur.times + 1]
    /\ UNCHANGED <<now, ticks, reqs, disk, httpVars, wpc, wq, toUpd, answers>>

NextDatabase ==
    \/ \E bagged \in BOOLEAN, h \in BagHashes, ok \in BOOLEAN : doStore(bagged, h, ok)
    \/ \E ok \in BOOLEAN : doStoreRemove(ok)
    \/ \E env \in UpdateEnvs(Outcomes) : doUpdate(env)
    \/ \E ok \in BOOLEAN : CompleteUpdateTasksAgain(ok)
    \/ \E ok \in BOOLEAN : doUpdateCommit(ok)

SpecDatabase == InitDatabase /\ [][NextDatabase]_vars

\* ----------------------------------------- stored values that do not parse
\* The worker's rounds on a store in which a file record or a cleanup task does
\* not parse.  The cleanup tasks that parse are due.
InitUnparseable ==
    /\ now = 1000
    /\ ticks = MaxTicks
    /\ reqs = MaxRequests
    /\ \E D \in SUBSET Keys :
          files \in [D -> {Garbage} \cup {RecordIn(k, st, 1) :
                                            k \in D, st \in {FileStateNew, FileStateBag}}]
    /\ \A k \in DOMAIN files : Parses(files[k]) => fileKey(files[k].ownerAddr, files[k].filePath) = k
    /\ bags = BagsOf(files)
    /\ storeTasks \in SUBSET Keys
    /\ \E D \in SUBSET Keys :
          cleanTasks \in [D -> {Garbage} \cup {[execAt |-> now - 1, force |-> f] : f \in BOOLEAN}]
    /\ \/ \E k \in DOMAIN files : ~Parses(files[k])
       \/ \E k \in DOMAIN cleanTasks : ~Parses(cleanTasks[k])
    /\ updateTasks \in SUBSET {<<now, k>> : k \in Keys}
    /\ updUser = Empty
    /\ disk = {<<k[1], k[2]>> : k \in DOMAIN files}
    /\ mx = FALSE
    /\ creating = {}
    /\ removing = {}
    /\ resp = "none"
    /\ wpc = "idle"
    /\ wq = {}
    /\ wcur = NoCur
    /\ toUpd = <<>>
    /\ answers = <<>>

NextUnparseable ==
    \/ worker
    \/ \E bagged \in BOOLEAN, h \in BagHashes, ok \in BOOLEAN : doStore(bagged, h, ok)
    \/ \E ok \in BOOLEAN : doStoreRemove(ok)
    \/ \E ok \in BOOLEAN : doCleanup(ok)
    \/ \E ok \in BOOLEAN : doCleanupRemoveBag(ok)
    \/ \E env \in UpdateEnvs(CoreOutcomes) : doUpdate(env)
    \/ \E ok \in BOOLEAN : doUpdateCommit(ok)

SpecUnparseable == InitUnparseable /\ [][NextUnparseable]_vars

\* ------------------------------------------------------------ daysLeft
BytesPerMB == 1048576
SecondsPerDay == 86400
SecondsPerHour == 3600

RECURSIVE GCD(_, _)
GCD(a, b) == IF b = 0 THEN a ELSE GCD(b, a % b)

\* big.Float.Quo of two whole numbers, kept as a fraction in lowest terms (the
\* rounding of the 64-bit mantissa is left out)
Quo(a, b) == <<a \div GCD(a, b), b \div GCD(a, b)>>

\* szMB in fetchContractInfo
SizeMB(fullSize) == Quo(fullSize, BytesPerMB)

\* fault: daysLeft giving up when the balance does not pay one more span
daysLeft_ExpiredOnLowBalance(balance, ratePerMBDay, szMB, maxSpan, lastProofAt) ==
    LET spanDays == Quo(maxSpan, SecondsPerDay)
        pricePerSpan == (szMB[1] * ratePerMBDay * spanDays[1]) \div (szMB[2] * spanDays[2])
    IN IF pricePerSpan = 0 \/ balance < pricePerSpan
          THEN [text |-> "Expired", days |-> 0, hours |-> 0]
          ELSE LET spansLeft == balance \div pricePerSpan
                   ago == now - lastProofAt
                   leftInCurrentSpan == IF ago < maxSpan THEN maxSpan - ago ELSE 0
                   totalSecondsLeft == leftInCurrentSpan + spansLeft * maxSpan
               IN [text |-> "Days Hours",
                   days |-> totalSecondsLeft \div SecondsPerDay,
                   hours |-> (totalSecondsLeft % SecondsPerDay) \div SecondsPerHour]

\* daysLeft: "Expired", or the two numbers of "%d Days %d Hours".  Int(nil)
\* truncates the price; ago is time.Since(lastProofAt) in whole seconds, which
\* the inputs keep within uint32.
daysLeft(balance, ratePerMBDay, szMB, maxSpan, lastProofAt) ==
    LET spanDays == Quo(maxSpan, SecondsPerDay)
        pricePerSpan == (szMB[1] * ratePerMBDay * spanDays[1]) \div (szMB[2] * spanDays[2])
    IN IF pricePerSpan = 0
          THEN [text |-> "Expired", days |-> 0, hours |-> 0]
          ELSE LET spansLeft == balance \div pricePerSpan
                   ago == now - lastProofAt
                   leftInCurrentSpan == IF ago < maxSpan THEN maxSpan - ago ELSE 0
                   totalSecondsLeft == leftInCurrentSpan + spansLeft * maxSpan
               IN [text |-> "Days Hours",
                   days |-> totalSecondsLeft \div SecondsPerDay,
                   hours |-> (totalSecondsLeft % SecondsPerDay) \div SecondsPerHour]

\* what the contract of a bag may hold when the update pass asks for it
Balances == {0, 1, 9, 10, 25, 1000}
Rates == {0, 1, 96, 1000}
FullSizes == {BytesPerMB \div 4, BytesPerMB, 3 * BytesPerMB}
MaxSpans == {0, SecondsPerHour, SecondsPerDay, 2 * SecondsPerDay}
ProofAges == {0, 1, SecondsPerHour - 1, SecondsPerHour, SecondsPerDay + SecondsPerHour,
              2 * SecondsPerDay}

\* the update pass in fetchContractInfo, with the contract's data in hand
InitDaysLeft ==
    /\ now = 1000000
    /\ ticks = MaxTicks
    /\ reqs = MaxRequests
    /\ files = Empty
    /\ bags = Empty
    /\ storeTasks = {}
    /\ cleanTasks = Empty
    /\ updateTasks = {}
    /\ updUser = Empty
    /\ disk = {}
    /\ mx = FALSE
    /\ creating = {}
    /\ removing = {}
    /\ resp = "none"
    /\ wpc = "update"
    /\ wq = {}
    /\ \E b \in Balances, r \in Rates, sz \in FullSizes, sp \in MaxSpans, ago \in ProofAges :
          wcur = [kind |-> "daysLeft", balance |-> b, ratePerMB |-> r, fullSize |-> sz,
                  maxSpan |-> sp, lastProofAt |-> now - ago,
                  left |-> [text |-> "", days |-> 0, hours |-> 0]]
    /\ toUpd = <<>>
    /\ answers = <<>>

\* fetchContractInfo's call of daysLeft
fetchContractInfo ==
    /\ wpc = "update"
    /\ wcur.kind = "daysLeft"
    /\ wcur' = [wcur EXCEPT !.kind = "left",
                            !.left = daysLeft(wcur.balance, wcur.ratePerMB, SizeMB(wcur.fullSize),
                                              wcur.maxSpan, wcur.lastProofAt)]
    /\ UNCHANGED <<now, ticks, reqs, dbVars, disk, httpVars, wpc, wq, toUpd, answers>>

NextDaysLeft == fetchContractInfo

SpecDaysLeft == InitDaysLeft /\ [][NextDaysLeft]_vars

\* ----------------------------------------------- file records as JSON
\* A Go string is a sequence of units: an ASCII letter, an ASCII character that
\* json.Marshal escapes, a rune of two bytes, a byte that is not UTF-8, and the
\* replacement rune U+FFFD.
GoChars == {"a", "<", "U+00E9", "xFF", "U+FFFD"}

GoStrings(n) == UNION {[1..m -> GoChars] : m \in 0..n}

\* encoding/json writes a string coerced to valid UTF-8: a byte that is not
\* UTF-8 becomes the escape of U+FFFD; "<" is escaped for HTML
EncodeChar(c) ==
    CASE c = "<" -> "\\u003c"
      [] c = "xFF" -> "\\ufffd"
      [] OTHER -> c

DecodeChar(j) ==
    CASE j = "\\u003c" -> "<"
      [] j = "\\ufffd" -> "U+FFFD"
      [] OTHER -> j

Null == [t |-> "null"]
MarshalString(str) == [t |-> "string", v |-> [i \in 1..Len(str) |-> EncodeChar(str[i])]]
UnmarshalString(j) == [i \in 1..Len(j.v) |-> DecodeChar(j.v[i])]
MarshalNumber(n) == [t |-> "number", v |-> n]
UnmarshalNumber(j) == j.v
\* []byte is written as base64 text
MarshalBytes(b) == [t |-> "string", base64 |-> b]
UnmarshalBytes(j) == j.base64
\* time.Time is written as RFC 3339 text, which keeps the instant
MarshalTime(tm) == [t |-> "string", rfc3339 |-> tm]
UnmarshalTime(j) == j.rfc3339
\* a nil pointer is null; pointers are sets of at most one value
MarshalTimePtr(p) == IF p = {} THEN Null ELSE MarshalTime(CHOOSE x \in p : TRUE)
UnmarshalTimePtr(j) == IF j = Null THEN {} ELSE {UnmarshalTime(j)}

MarshalBag(p) ==
    IF p = {} THEN Null
    ELSE LET b == CHOOSE x \in p : TRUE
         IN [t |-> "object",
             RootHash |-> MarshalBytes(b.RootHash),
             MerkleHash |-> MarshalBytes(b.MerkleHash),
             FullSize |-> MarshalNumber(b.FullSize),
             PieceSize |-> MarshalNumber(b.PieceSize),
             CreatedAt |-> MarshalTime(b.CreatedAt)]

UnmarshalBag(j) ==
    IF j = Null THEN {}
    ELSE {[RootHash |-> UnmarshalBytes(j.RootHash),
           MerkleHash |-> UnmarshalBytes(j.MerkleHash),
           FullSize |-> UnmarshalNumber(j.FullSize),
           PieceSize |-> UnmarshalNumber(j.PieceSize),
           CreatedAt |-> UnmarshalTime(j.CreatedAt)]}

MarshalProviderInfo(p) ==
    IF p = {} THEN Null
    ELSE LET i == CHOOSE x \in p : TRUE
         IN [t |-> "object",
             Balance |-> MarshalString(i.Balance),
             PerDay |-> MarshalString(i.PerDay),
             Status |-> MarshalString(i.Status),
             Reason |-> MarshalString(i.Reason),
             Left |-> MarshalString(i.Left),
             LastUpdated |-> MarshalTime(i.LastUpdated),
             ErrorSince |-> MarshalTimePtr(i.ErrorSince)]

UnmarshalProviderInfo(j) ==
    IF j = Null THEN {}
    ELSE {[Balance |-> UnmarshalString(j.Balance),
           PerDay |-> UnmarshalString(j.PerDay),
           Status |-> UnmarshalString(j.Status),
           Reason |-> UnmarshalString(j.Reason),
           Left |-> UnmarshalString(j.Left),
           LastUpdated |-> UnmarshalTime(j.LastUpdated),
           ErrorSince |-> UnmarshalTimePtr(j.ErrorSince)]}

\* json.Marshal(fileData)
MarshalFileInfo(fi) ==
    [t |-> "object",
     State |-> MarshalNumber(fi.State),
     Key |-> MarshalString(fi.Key),
     OwnerAddr |-> MarshalString(fi.OwnerAddr),
     Bag |-> MarshalBag(fi.Bag),
     FilePath |-> MarshalString(fi.FilePath),
     CreatedAt |-> MarshalTime(fi.CreatedAt),
     Provider |-> MarshalProviderInfo(fi.Provider),
     ContractAddr |-> MarshalString(fi.ContractAddr)]

\* json.Unmarshal(data, &fileData) in GetFileByKey
UnmarshalFileInfo(j) ==
    [State |-> UnmarshalNumber(j.State),
     Key |-> UnmarshalString(j.Key),
     OwnerAddr |-> UnmarshalString(j.OwnerAddr),
     Bag |-> UnmarshalBag(j.Bag),
     FilePath |-> UnmarshalString(j.FilePath),
     CreatedAt |-> UnmarshalTime(j.CreatedAt),
     Provider |-> UnmarshalProviderInfo(j.Provider),
     ContractAddr |-> UnmarshalString(j.ContractAddr)]

\* The records the program marshals: New in StoreFileInfo with the cleaned name
\* of the upload, Bagged in CompleteStoreTask, Stored in CompleteUpdateTasks with
\* the status and the reason the provider gave.  Addresses are ASCII.
GoBag(h) ==
    [RootHash |-> h, MerkleHash |-> h + NumHashes, FullSize |-> BytesPerMB, PieceSize |-> 128,
     CreatedAt |-> now]

GoProviderInfo(reason, since) ==
    [Balance |-> <<"a">>, PerDay |-> <<"a">>, Status |-> <<"a">>, Reason |-> reason,
     Left |-> <<"a">>, LastUpdated |-> now, ErrorSince |-> since]

GoFileInfos ==
    LET new(name) == [State |-> FileStateNew, Key |-> <<>>, OwnerAddr |-> <<"a">>, Bag |-> {},
                      FilePath |-> name, CreatedAt |-> now, Provider |-> {},
                      ContractAddr |-> <<>>]
        names == GoStrings(MaxNameLen) \ {<<>>}
    IN {new(n) : n \in names}
         \cup {[new(n) EXCEPT !.State = FileStateBag, !.Bag = {GoBag(h)},
                              !.ContractAddr = <<"a", "a">>] :
                  n \in names, h \in Hashes}
         \cup {[new(n) EXCEPT !.State = FileStateStored, !.Bag = {GoBag(1)},
                              !.ContractAddr = <<"a", "a">>,
                              !.Provider = {GoProviderInfo(r, e)}] :
                  n \in names, r \in GoStrings(1), e \in {{}, {now - 1}}}

InitJSON ==
    /\ now = 1000
    /\ ticks = MaxTicks
    /\ reqs = MaxRequests
    /\ files = Empty
    /\ bags = Empty
    /\ storeTasks = {}
    /\ cleanTasks = Empty
    /\ updateTasks = {}
    /\ updUser = Empty
    /\ disk = {}
    /\ mx = FALSE
    /\ creating = {}
    /\ removing = {}
    /\ resp = "none"
    /\ wpc = "idle"
    /\ wq = {}
    /\ \E fi \in GoFileInfos : wcur = [kind |-> "marshal", fileData |-> fi]
    /\ toUpd = <<>>
    /\ answers = <<>>

\* json.Marshal and the write of "file:<key>"
PutFileInfo ==
    /\ wcur.kind = "marshal"
    /\ wcur' = [kind |-> "stored", fileData |-> wcur.fileData,
                data |-> MarshalFileInfo(wcur.fileData)]
    /\ UNCHANGED <<now, ticks, reqs, dbVars, disk, httpVars, wpc, wq, toUpd, answers>>

\* Database.GetFileByKey: the read of "file:<key>" and json.Unmarshal
GetFileByKey ==
    /\ wcur.kind = "stored"
    /\ wcur' = [kind |-> "read", fileData |-> wcur.fileData,
                got |-> UnmarshalFileInfo(wcur.data)]
    /\ UNCHANGED <<now, ticks, reqs, dbVars, disk, httpVars, wpc, wq, toUpd, answers>>

NextJSON == PutFileInfo \/ GetFileByKey

SpecJSON == InitJSON /\ [][NextJSON]_vars

\* A storage daemon that never answers.  CreateBag and GetBag in doStore, RemoveBag
\* in doCleanup and GetBag in doUpdate are called with context.Background() on an
\* http.Client without Timeout, so the worker waits in the call for good; the
\* chain and the provider are called under a 7 s context and answer with an error
\* at the latest then (chainError, infoError).
DaemonHangs ==
    /\ \/ wpc = "store" /\ wq # {} /\ MinKey(wq) \in DOMAIN files
       \/ wpc = "cleanup_removeBag"
       \/ wpc = "update" /\ wq # {} /\ \E t \in wq : AsksDaemon(t)
    /\ wpc' = "blocked"
    /\ UNCHANGED <<now, ticks, reqs, dbVars, disk, httpVars, wq, wcur, toUpd, answers>>

NextDaemon ==
    \/ NextUpdate
    \/ DaemonHangs

SpecDaemon == Init /\ [][NextDaemon]_vars

\* ------------------------------------------------------- properties
HasBag(k) == k \in DOMAIN files /\ files[k].bag # {}

\* the number of File Records whose bag has root hash h
RefCount(h) ==
    Cardinality({k \in DOMAIN files : HasBag(k) /\ BagOf(files[k]).rootHash = h})

\* C1: for every root hash h the usage count of the bag record for h equals the
\* number of File Records whose bag is h, and there is no bag record for h when
\* that number is 0.
C1_UsageCount ==
    \A h \in Hashes :
        IF RefCount(h) = 0
           THEN h \notin DOMAIN bags
           ELSE h \in DOMAIN bags /\ bags[h].usages = RefCount(h)

\* a bag that was shared by two records and has lost one of them: the record that
\* is left carries the path of the other
C1_Witness ==
    \E h \in DOMAIN bags :
        /\ bags[h].usages = 1
        /\ \E k \in DOMAIN files :
              /\ HasBag(k)
              /\ BagOf(files[k]).rootHash = h
              /\ files[k].filePath # k[2]

\* C2: the state of a record changes only New -> Bagged, in the store pass, and
\* Bagged -> Stored, in the update pass; a record goes away only in the cleanup
\* pass; a record that appears is New.
C2_StateChanges ==
    [][\A k \in Keys :
         /\ (k \in DOMAIN files /\ k \in DOMAIN files') =>
               \/ files'[k].state = files[k].state
               \/ /\ files[k].state = FileStateNew
                  /\ files'[k].state = FileStateBag
                  /\ wpc = "store"
               \/ /\ files[k].state = FileStateBag
                  /\ files'[k].state = FileStateStored
                  /\ wpc = "update"
         /\ (k \in DOMAIN files /\ k \notin DOMAIN files') => wpc = "cleanup"
         /\ (k \notin DOMAIN files /\ k \in DOMAIN files') =>
               files'[k].state = FileStateNew
      ]_vars

\* one record has reached Stored; another was created and deleted, which leaves
\* its store task behind
C2_Witness ==
    /\ \E k \in DOMAIN files : files[k].state = FileStateStored
    /\ \E j \in storeTasks : j \notin DOMAIN files

\* C3: a New record has neither bag nor provider info, a Bagged record has a bag
\* and no provider info, a Stored record has both.
C3_RecordShape ==
    \A k \in DOMAIN files :
        /\ files[k].state \in {FileStateNew, FileStateBag, FileStateStored}
        /\ files[k].state = FileStateNew =>
              files[k].bag = {} /\ files[k].provider = {}
        /\ files[k].state = FileStateBag =>
              files[k].bag # {} /\ files[k].provider = {}
        /\ files[k].state = FileStateStored =>
              files[k].bag # {} /\ files[k].provider # {}

\* records in all three states at once need three files; two show Bagged beside Stored
C3_Witness ==
    \E k \in DOMAIN files, j \in DOMAIN files :
        /\ files[k].state = FileStateStored
        /\ files[k].bag # {} /\ files[k].provider # {}
        /\ files[j].state = FileStateBag
        /\ files[j].bag # {} /\ files[j].provider = {}

\* C4: StoreFileInfo for a key that has a record answers "already exists" and
\* writes nothing; a record appears only as a New record together with its store
\* task, in the one step; a store task appears only together with its record; and
\* a StoreFileInfo batch never lands on a key that has a record, so of the calls
\* racing for a key one creates it.
C4_CreateRecord ==
    [][\A k \in Keys :
         /\ (StoreFile(k) /\ k \in DOMAIN files) =>
               (resp' = "already exists" /\ UNCHANGED dbVars)
         /\ (k \notin DOMAIN files /\ k \in DOMAIN files') =>
               /\ files'[k] = NewFileInfo(k, files'[k].createdAt)
               /\ files'[k].createdAt <= now
               /\ k \in storeTasks'
               /\ resp' = "ok"
               /\ UNCHANGED <<bags, cleanTasks, updateTasks, updUser>>
         /\ (k \notin storeTasks /\ k \in storeTasks') =>
               (k \notin DOMAIN files /\ k \in DOMAIN files')
         /\ (\E r \in creating : r.key = k /\ StoreFileInfoWrite(r, TRUE)) =>
               k \notin DOMAIN files
      ]_vars

\* a second upload of a key was refused while the first record waits for the store pass
C4_Witness ==
    /\ resp = "already exists"
    /\ \E k \in DOMAIN files : files[k].state = FileStateNew /\ k \in storeTasks

\* C5: RemoveFile on a Stored record answers with the error and writes nothing;
\* on a record below Stored it goes on to CreateCleanTask, whose write is the
\* cleanup task of that key with force = true and execAt = now.
C5_RequestDeletion ==
    [][\A k \in Keys :
         /\ (RemoveFile(k) /\ k \in DOMAIN files /\ files[k].state >= FileStateStored) =>
               /\ resp' = "file is paid and stored at provider"
               /\ removing' = removing
               /\ UNCHANGED dbVars
         /\ (RemoveFile(k) /\ k \in DOMAIN files /\ files[k].state < FileStateStored) =>
               (k \in removing' /\ UNCHANGED dbVars)
         /\ (k \in removing /\ k \notin removing') =>
               \/ /\ cleanTasks' = Put(cleanTasks, k, [execAt |-> now, force |-> TRUE])
                  /\ resp' = "ok"
               \/ /\ cleanTasks' = cleanTasks
                  /\ resp' = "write failed"
      ]_vars

\* a removal asked for while the record was Bagged left its forced task; the
\* record went on to Stored, and the next removal was refused
C5_Witness ==
    /\ resp = "file is paid and stored at provider"
    /\ \E k \in DOMAIN cleanTasks :
          /\ cleanTasks[k].force
          /\ k \in DOMAIN files
          /\ files[k].state = FileStateStored

\* the effects of a store completion on key k, one by one
BecomesBagged(k) ==
    /\ k \in DOMAIN files /\ files[k].state = FileStateNew
    /\ k \in DOMAIN files' /\ files'[k].state # FileStateNew

StoreTaskDeleted(k) == k \in storeTasks /\ k \notin storeTasks'

ScheduledTaskWritten(k) ==
    /\ k \in DOMAIN cleanTasks'
    /\ ~cleanTasks'[k].force
    /\ (k \in DOMAIN cleanTasks => cleanTasks'[k] # cleanTasks[k])

UpdateTaskWritten(k) == <<now, k>> \in updateTasks' \ updateTasks

BagRecordWritten(k) ==
    /\ HasBag(k)'
    /\ BagOf(files'[k]).rootHash \in DOMAIN bags'
    /\ BagOf(files'[k]).rootHash \in DOMAIN bags =>
          bags'[BagOf(files'[k]).rootHash] # bags[BagOf(files'[k]).rootHash]

\* C6: for a record in state New, a step shows any effect of the store completion
\* only if it shows all of them: the record Bagged with its bag and its contract
\* address, the bag record written, the cleanup task with force = false, the
\* update task due now, the store task deleted.
C6_StoreCompletion ==
    [][\A k \in Keys :
         (/\ k \in DOMAIN files
          /\ files[k].state = FileStateNew
          /\ \/ BecomesBagged(k)
             \/ StoreTaskDeleted(k)
             \/ ScheduledTaskWritten(k)
             \/ UpdateTaskWritten(k)) =>
            /\ BecomesBagged(k)
            /\ files'[k].state = FileStateBag
            /\ HasBag(k)'
            /\ files'[k].contractAddr =
                  calcContractAddr(BagOf(files'[k]), files[k].ownerAddr)
            /\ BagRecordWritten(k)
            /\ ScheduledTaskWritten(k)
            /\ cleanTasks'[k].execAt = BagOf(files'[k]).createdAt + FreeStore
            /\ <<now, k>> \in updateTasks'
            /\ StoreTaskDeleted(k)
      ]_vars

\* the state right after a store completion
C6_Witness ==
    \E k \in DOMAIN files :
        /\ files[k].state = FileStateBag
        /\ k \notin storeTasks
        /\ k \in DOMAIN cleanTasks /\ ~cleanTasks[k].force
        /\ <<BagOf(files[k]).createdAt, k>> \in updateTasks
        /\ BagOf(files[k]).rootHash \in DOMAIN bags
        /\ files[k].contractAddr = calcContractAddr(BagOf(files[k]), k[1])

\* C7: a step that deletes the store task of k leaves the record of k Bagged or
\* beyond, and after every step every New record has its store task.
C7_StoreTask ==
    [][\A k \in Keys :
         /\ StoreTaskDeleted(k) =>
               (k \in DOMAIN files' /\ files'[k].state >= FileStateBag)
         /\ (k \in DOMAIN files' /\ files'[k].state = FileStateNew) =>
               k \in storeTasks'
      ]_vars

\* one record is through the store pass and has lost its store task, another
\* still waits with its store task
C7_Witness ==
    \E k \in DOMAIN files, j \in DOMAIN files :
        /\ files[k].state >= FileStateBag /\ k \notin storeTasks
        /\ files[j].state = FileStateNew /\ j \in storeTasks

\* C8: when a New record becomes Bagged with a bag the store does not know, the
\* bag record is created with usages 1 and the record's path, and no file is to
\* be removed; with a bag the store knows, the same step adds exactly 1 to
\* usages, keeps the bag record's path and gives it to the record, and the
\* record's old file is removed from the disk by the step after, which is
\* reached no other way, so never when the commit fails.
C8_Dedup ==
    [][/\ \A k \in Keys :
            BecomesBagged(k) =>
               LET h == BagOf(files'[k]).rootHash IN
               IF h \notin DOMAIN bags
                  THEN /\ bags' = Put(bags, h, [usages |-> 1, filePath |-> files[k].filePath])
                       /\ files'[k].filePath = files[k].filePath
                       /\ wpc' # "store_remove"
                       /\ disk' = disk
                  ELSE /\ bags' = Put(bags, h, [usages |-> bags[h].usages + 1,
                                                filePath |-> bags[h].filePath])
                       /\ files'[k].filePath = bags[h].filePath
                       /\ wpc' = "store_remove"
                       /\ wcur'.path = <<files[k].ownerAddr, files[k].filePath>>
                       /\ disk' = disk
       /\ (wpc # "store_remove" /\ wpc' = "store_remove") =>
             \E k \in Keys : /\ BecomesBagged(k)
                             /\ BagOf(files'[k]).rootHash \in DOMAIN bags
       /\ (disk \ disk' # {}) =>
             (wpc = "store_remove" /\ disk \ disk' = {wcur.path})
      ]_vars

\* a record that took the path of the bag's first record, its own file gone from
\* the disk
C8_Witness ==
    \E k \in DOMAIN files :
        /\ HasBag(k)
        /\ files[k].filePath # k[2]
        /\ <<k[1], k[2]>> \notin disk
        /\ BagOf(files[k]).rootHash \in DOMAIN bags
        /\ bags[BagOf(files[k]).rootHash].usages = 2
        /\ bags[BagOf(files[k]).rootHash].filePath = files[k].filePath

\* a step of the cleanup pass on the first task of its list
CleanupStep ==
    /\ wpc = "cleanup"
    /\ wpc' = "cleanup" => MinCleanupTask(wq) \notin wq'

\* C9: the list of a cleanup pass holds the tasks whose execAt has passed.  For
\* each task of the list whose batch commits, the record is deleted exactly if
\* the task is forced or the record is below Stored, and the cleanup task of the
\* key is deleted in that step either way.  A cleanup task goes away only so, and
\* never one whose execAt is in the future.
C9_Cleanup ==
    [][/\ CleanupStep =>
            LET t == MinCleanupTask(wq)
                k == t.key
            IN \/ UNCHANGED dbVars
               \/ /\ k \notin DOMAIN cleanTasks'
                  /\ \A j \in DOMAIN cleanTasks \ {k} :
                        j \in DOMAIN cleanTasks' /\ cleanTasks'[j] = cleanTasks[j]
                  /\ k \in DOMAIN files =>
                        ((k \notin DOMAIN files') <=>
                            (t.force \/ files[k].state < FileStateStored))
                  /\ \A j \in DOMAIN files \ {k} : j \in DOMAIN files'
       /\ (wpc' = "cleanup" /\ wpc \notin {"cleanup", "cleanup_removeBag"}) =>
            wq' = {[key |-> k, force |-> cleanTasks'[k].force] :
                      k \in {j \in DOMAIN cleanTasks' : cleanTasks'[j].execAt < now}}
       /\ \A k \in DOMAIN cleanTasks :
            k \notin DOMAIN cleanTasks' =>
               /\ CleanupStep
               /\ k = MinCleanupTask(wq).key
               /\ cleanTasks[k].execAt <= now
      ]_vars

\* the scheduled task of a Stored record has run: the task is gone, the record stays
C9_Witness ==
    \E k \in DOMAIN files :
        /\ files[k].state = FileStateStored
        /\ k \notin DOMAIN cleanTasks
        /\ now > BagOf(files[k]).createdAt + FreeStore

\* C10: the worker is about to call RemoveBag only coming from a cleanup batch
\* that took the last usage of the bag and deleted its bag record, the record
\* and the cleanup task; while the call is pending no record has the bag and no
\* bag record exists for it; the call, failing or not, changes nothing stored.
C10_RemoveBag ==
    [][/\ (wpc' = "cleanup_removeBag") =>
            /\ wcur'.rootHash \notin DOMAIN bags'
            /\ \A k \in DOMAIN files' :
                  HasBag(k)' => BagOf(files'[k]).rootHash # wcur'.rootHash
       /\ (wpc # "cleanup_removeBag" /\ wpc' = "cleanup_removeBag") =>
            /\ CleanupStep
            /\ wcur'.key = MinCleanupTask(wq).key
            /\ HasBag(wcur'.key)
            /\ BagOf(files[wcur'.key]).rootHash = wcur'.rootHash
            /\ wcur'.rootHash \in DOMAIN bags
            /\ bags[wcur'.rootHash].usages = 1
            /\ wcur'.key \notin DOMAIN files'
            /\ wcur'.key \notin DOMAIN cleanTasks'
       /\ (wpc = "cleanup_removeBag" /\ wpc' # "cleanup_removeBag") =>
            UNCHANGED dbVars
      ]_vars

\* RemoveBag is pending for one bag while another record holds another bag
C10_Witness ==
    /\ wpc = "cleanup_removeBag"
    /\ wcur.key \notin DOMAIN files
    /\ \E k \in DOMAIN files : HasBag(k)

\* ---------------------------------------------------- the update pass
\* the daemon has the bag, the chain the contract, and the provider answers with
\* no error that asks for cleanup
Observed(t, out) ==
    /\ AsksDaemon(t)
    /\ \/ out \in {"active", "errorInternal"}
       \/ out = "errorOther" /\ ~ErrorExpired(files[t[2]])

\* of the results of the pass that carry provider info for key k, the one the
\* batch puts last
LastWrite(k) ==
    LET S == {t \in DOMAIN toUpd : t[2] = k /\ toUpd[t].providerInfo # {}}
    IN CHOOSE t \in S : \A u \in S : u[1] <= t[1]

\* what the committed batch of CompleteUpdateTasks does with each result
CommitApplied ==
    doUpdateCommit(TRUE) =>
        \A t \in DOMAIN toUpd :
            LET r == toUpd[t] IN
            /\ t \notin updateTasks'
            /\ r.nextExecAt # NoTime => <<r.nextExecAt, r.key>> \in updateTasks'
            /\ (r.providerInfo # {} /\ r.key \in DOMAIN files) =>
                  /\ files'[r.key].state = FileStateStored
                  /\ files'[r.key].provider = toUpd[LastWrite(r.key)].providerInfo
            /\ (r.key \in DOMAIN files
                    /\ \A u \in DOMAIN toUpd :
                          u[2] = r.key => toUpd[u].providerInfo = {}) =>
                  files'[r.key] = files[r.key]

\* the batch changes the update queue by the results, nothing more
OnlySuccessorsAdded ==
    doUpdateCommit(TRUE) =>
        updateTasks' =
            (updateTasks \ DOMAIN toUpd) \cup
            {<<toUpd[t].nextExecAt, t[2]>> :
                t \in {u \in DOMAIN toUpd : toUpd[u].nextExecAt # NoTime}}

\* the step is doUpdate's loop over the list it fetched
LoopStep == wpc = "update" /\ wq # {} /\ wq' = {}

\* the loop ran the closure on task t with the answer out from daemon, chain and
\* provider, and ok from the write of CreateCleanTaskByKey where it was called
Answered(t, out, ok) ==
    /\ LoopStep
    /\ t \in wq
    /\ answers'[t] = [out |-> out, ok |-> ok]

\* the loop wrote no cleanup task for the key of t
NoCleanTaskWritten(t) ==
    IF t[2] \in DOMAIN cleanTasks
       THEN t[2] \in DOMAIN cleanTasks' /\ cleanTasks'[t[2]] = cleanTasks[t[2]]
       ELSE t[2] \notin DOMAIN cleanTasks'

RetryAt(t) == IF t[1] = 0 THEN NoTime ELSE now + ShortInterval

SinceOf(fi) == IF fi.provider = {} THEN NoTime ELSE ProviderOf(fi).errorSince

\* C13: the provider answers status error with a reason other than "internal
\* provider error".  While errorSince of the record is unset or at most the grace
\* period old, the result carries errorSince = now when the record had none and
\* the record's errorSince otherwise.  Once it is older, the closure writes the
\* forced cleanup task (when the write succeeds) and the task gets no successor.
\* In the records, errorSince is only ever set to now, is kept while the reason
\* stays, and is set only with that reason.
C13_ErrorSince ==
    [][/\ \A t \in wq, ok \in BOOLEAN :
            Answered(t, "errorOther", ok) =>
               LET fi == files[t[2]]
                   since == SinceOf(fi)
               IN IF since # NoTime /\ now - since > FreeStore
                     THEN /\ toUpd'[t].nextExecAt = NoTime
                          /\ toUpd'[t].providerInfo = fi.provider
                          /\ ok => /\ t[2] \in DOMAIN cleanTasks'
                                   /\ cleanTasks'[t[2]] = [execAt |-> now, force |-> TRUE]
                     ELSE /\ toUpd'[t].providerInfo =
                                {[status |-> "error", reason |-> "other",
                                  errorSince |-> IF since # NoTime THEN since ELSE now]}
                          /\ toUpd'[t].nextExecAt # NoTime => toUpd'[t].nextExecAt > now
                          /\ (\A u \in wq : u[2] = t[2] => answers'[u].out = "errorOther")
                                => NoCleanTaskWritten(t)
       /\ \A k \in DOMAIN files' :
            LET new == SinceOf(files'[k]) IN
            new # NoTime =>
               /\ ProviderOf(files'[k]).status = "error"
               /\ ProviderOf(files'[k]).reason = "other"
               /\ IF k \in DOMAIN files /\ SinceOf(files[k]) # NoTime
                     THEN new = SinceOf(files[k])
                     ELSE new = now
       /\ CommitApplied
      ]_vars

\* the error was first seen at one tick and is older than the grace period at the
\* next observation, by the chain task: the forced cleanup task is written and the
\* task has no successor
C13_Witness ==
    /\ wpc = "update" /\ wq = {}
    /\ \E t \in DOMAIN answers :
          /\ answers[t].out = "errorOther"
          /\ t[1] # 0
          /\ SinceOf(files[t[2]]) # NoTime
          /\ now - SinceOf(files[t[2]]) > FreeStore
          /\ toUpd[t].nextExecAt = NoTime
          /\ t[2] \in DOMAIN cleanTasks
          /\ cleanTasks[t[2]] = [execAt |-> now, force |-> TRUE]

\* a second observation inside the grace period keeps the errorSince of the first
C13_Kept ==
    /\ wpc = "update" /\ wq = {}
    /\ \E t \in DOMAIN answers :
          /\ answers[t].out = "errorOther"
          /\ \E p \in toUpd[t].providerInfo :
                p.errorSince # NoTime /\ p.errorSince < now /\ now - p.errorSince <= FreeStore

\* the record of task t shows "internal provider error" from an observation that
\* scheduled t, and that was longer ago than the grace period
InternalErrorLasts(t) ==
    /\ t[1] # 0
    /\ now - (t[1] - LongInterval) > FreeStore
    /\ files[t[2]].provider # {}
    /\ ProviderOf(files[t[2]]).reason = "internal provider error"

C15_BagGone ==
    [][/\ \A t \in wq, ok \in BOOLEAN :
            Answered(t, "bagNotFound", ok) =>
               /\ toUpd'[t].providerInfo = files[t[2]].provider
               /\ IF ok
                     THEN /\ t[2] \in DOMAIN cleanTasks'
                          /\ cleanTasks'[t[2]] = [execAt |-> now, force |-> TRUE]
                          /\ toUpd'[t].nextExecAt = NoTime
                     ELSE toUpd'[t].nextExecAt = RetryAt(t)
       /\ \A k \in DOMAIN cleanTasks :
            (cleanTasks[k].force /\ HasBag(k)) =>
               IF CleanupStep /\ MinCleanupTask(wq).key = k
                  THEN MinCleanupTask(wq).force =>
                          \/ UNCHANGED dbVars
                          \/ k \notin DOMAIN cleanTasks' /\ k \notin DOMAIN files'
                  ELSE /\ k \in DOMAIN cleanTasks' /\ cleanTasks'[k].force
                       /\ k \in DOMAIN files'
       /\ wpc = "update" => wpc' \in {"update", "idle"}
       /\ CommitApplied
       /\ OnlySuccessorsAdded
      ]_vars

\* the chain task of a record found its bag gone: the forced cleanup task is
\* written and the result has no successor
C15_Witness ==
    /\ wpc = "update" /\ wq = {}
    /\ \E t \in DOMAIN answers :
          /\ answers[t] = [out |-> "bagNotFound", ok |-> TRUE]
          /\ t[1] # 0
          /\ HasBag(t[2])
          /\ cleanTasks[t[2]] = [execAt |-> now, force |-> TRUE]
          /\ toUpd[t].nextExecAt = NoTime

\* C16: the record of a due task does not exist.  The result has no successor
\* and no providerInfo and the closure writes no cleanup task; the batch deletes
\* the task, adds nothing for it and writes no record: the key has a record after
\* the batch only if it had one before, unchanged.
C16_RecordMissing ==
    [][/\ \A t \in wq, ok \in BOOLEAN :
            (Answered(t, "none", ok) /\ t[2] \notin DOMAIN files) =>
               /\ toUpd'[t] = [key |-> t[2], execAt |-> t[1],
                               nextExecAt |-> NoTime, providerInfo |-> {}]
               /\ NoCleanTaskWritten(t)
       /\ doUpdateCommit(TRUE) =>
            /\ DOMAIN files' = DOMAIN files
            /\ \A t \in DOMAIN toUpd :
                  (toUpd[t].nextExecAt = NoTime /\ toUpd[t].providerInfo = {}) =>
                     /\ t \notin updateTasks'
                     /\ \A u \in updateTasks' \ updateTasks :
                           u[2] = t[2] =>
                              \E v \in DOMAIN toUpd :
                                 v # t /\ v[2] = t[2] /\ toUpd[v].nextExecAt = u[1]
                     /\ (\A v \in DOMAIN toUpd :
                             v[2] = t[2] => toUpd[v].providerInfo = {}) =>
                           \A k \in DOMAIN files : k = t[2] => files'[k] = files[k]
       /\ OnlySuccessorsAdded
      ]_vars

\* the chain task of a record that a cleanup deleted: the result has no successor,
\* and once the batch is in there is no task and no record for the key
C16_Witness ==
    /\ wpc = "update" /\ wq = {}
    /\ \E t \in DOMAIN answers :
          /\ t[1] # 0
          /\ t[2] \notin DOMAIN files
          /\ toUpd[t].nextExecAt = NoTime
          /\ \A u \in updateTasks : u[2] = t[2] => u = t

\* C17: the update pass writes to the store in one batch: the loop over the list
\* buffers and writes nothing, the commit writes everything.
C17_OneBatch ==
    [][LoopStep => UNCHANGED dbVars]_vars

\* the loop is over and the batch is not written yet: the forced cleanup task of a
\* key is in the store while the update task that led to it is still queued
C17_Intermediate ==
    /\ wpc = "update" /\ wq = {}
    /\ \E t \in DOMAIN answers :
          /\ answers[t] = [out |-> "bagNotFound", ok |-> TRUE]
          /\ cleanTasks[t[2]] = [execAt |-> now, force |-> TRUE]
          /\ toUpd[t].nextExecAt = NoTime
          /\ t \in updateTasks

\* C18: a step of the store pass on a task whose record exists, in which
\* CreateBag, GetBag or calcContractAddr fails (bagged = FALSE) or the batch of
\* CompleteStoreTask fails (ok = FALSE), leaves the store as it is, with the store
\* task in it, leaves the disk as it is and does not go to os.Remove; the pass
\* goes on with the rest of its list, and on to the cleanup pass after the last.
C18_StoreFailure ==
    [][(wpc = "store" /\ wq # {} /\ MinKey(wq) \in DOMAIN files
            /\ (wpc' # wpc \/ wq' # wq)) =>
          \A bagged \in BOOLEAN, h \in BagHashes, ok \in BOOLEAN :
             (doStore(bagged, h, ok) /\ (~bagged \/ ~ok)) =>
                /\ files' = files /\ bags' = bags
                /\ storeTasks' = storeTasks /\ MinKey(wq) \in storeTasks'
                /\ cleanTasks' = cleanTasks /\ updateTasks' = updateTasks
                /\ disk' = disk
                /\ wpc' \notin {"store_remove", "crashed"}
                /\ IF wq \ {MinKey(wq)} # {}
                      THEN wpc' = "store" /\ wq' = wq \ {MinKey(wq)}
                      ELSE wpc' \in {"cleanup", "update", "idle"}
      ]_vars

\* A record that a removal was asked for before the clock advanced is still New,
\* with its store task, when the worker has reached the cleanup pass after the
\* advance: the store pass of this tick took the task and failed on it.
C18_Witness ==
    /\ wpc = "cleanup"
    /\ \E k \in DOMAIN files :
          /\ files[k].state = FileStateNew
          /\ k \in storeTasks
          /\ k \in DOMAIN cleanTasks
          /\ cleanTasks[k].force
          /\ cleanTasks[k].execAt < now
          /\ <<files[k].ownerAddr, files[k].filePath>> \in disk

\* the answers that are failures of the daemon, the chain or the provider and ask
\* for no cleanup
Transient == {"bagError", "chainError", "infoError"}

\* C19: a task that meets such a failure results in the providerInfo the record
\* has and in a successor at now + 15 s, unless it is a one-shot task (due time
\* 0), which gets none; the closure writes no cleanup task.  When every task of
\* the key met such a failure in the pass, the batch leaves the record as it was,
\* and it enqueues the successors.
C19_Transient ==
    [][/\ \A t \in wq, out \in Transient, ok \in BOOLEAN :
            Answered(t, out, ok) =>
               /\ toUpd'[t].providerInfo = files[t[2]].provider
               /\ toUpd'[t].nextExecAt = RetryAt(t)
               /\ (\A u \in wq : u[2] = t[2] => answers'[u].out \in Transient)
                     => NoCleanTaskWritten(t)
       /\ doUpdateCommit(TRUE) =>
            \A t \in DOMAIN answers :
               answers[t].out \in Transient =>
                  /\ t[1] # 0 => <<now + ShortInterval, t[2]>> \in updateTasks'
                  /\ (\A u \in DOMAIN answers :
                          u[2] = t[2] => answers[u].out \in Transient) =>
                        /\ t[2] \in DOMAIN files'
                        /\ files'[t[2]] = files[t[2]]
       /\ OnlySuccessorsAdded
      ]_vars

\* the chain task of a Stored record met a chain error: the result keeps the
\* providerInfo and has its successor 15 s ahead
C19_Witness ==
    /\ wpc = "update" /\ wq = {}
    /\ \E t \in DOMAIN answers :
          /\ answers[t].out = "chainError"
          /\ t[1] # 0
          /\ files[t[2]].state = FileStateStored
          /\ toUpd[t].providerInfo = files[t[2]].provider
          /\ toUpd[t].nextExecAt = now + ShortInterval

\* C19 as it is worded: every such task gets a successor at now + 15 s
C19_NeverDropped ==
    [][\A t \in wq, out \in Transient, ok \in BOOLEAN :
          Answered(t, out, ok) =>
             /\ toUpd'[t].providerInfo = files[t[2]].provider
             /\ toUpd'[t].nextExecAt = now + ShortInterval
      ]_vars

\* the pass the worker is in
StorePass == wpc \in {"store", "store_remove"}
CleanupPass == wpc \in {"cleanup", "cleanup_removeBag"}
UpdatePass == wpc = "update"

\* C20: the worker is in one pass at a time and goes through them in the order
\* store, cleanup, update: a round starts only from idle, with the store pass on
\* the store tasks of that moment (or with the first pass that has work); the
\* cleanup pass starts only when the store pass is over, on the cleanup tasks due
\* then, the update pass only when the cleanup pass is over, on the update tasks
\* due then; no pass is entered again before the round is over; and the store is
\* written by the worker in the pass it is in.
C20_PassOrder ==
    [][/\ wpc' # wpc =>
            \/ wpc = "idle" /\ (StorePass' \/ CleanupPass' \/ UpdatePass')
            \/ StorePass /\ (StorePass' \/ CleanupPass' \/ UpdatePass'
                                \/ wpc' \in {"idle", "crashed"})
            \/ CleanupPass /\ (CleanupPass' \/ UpdatePass' \/ wpc' = "idle")
            \/ UpdatePass /\ wpc' = "idle"
       /\ (StorePass' /\ ~StorePass) => (wpc = "idle" /\ wq' = storeTasks)
       /\ (CleanupPass' /\ ~CleanupPass) =>
            /\ wpc = "idle" \/ StorePass
            /\ (StorePass => wq \in SUBSET Keys /\ Cardinality(wq) <= 1)
            /\ wq' = GetPendingCleanupTasks'
       /\ (UpdatePass' /\ ~UpdatePass) =>
            /\ wpc = "idle" \/ StorePass \/ CleanupPass
            /\ (wpc # "idle" => Cardinality(wq) <= 1)
            /\ wq' = GetPendingUpdateTasks'
            /\ toUpd' = <<>>
       /\ (StorePass /\ StorePass' /\ wq' # wq) =>
            (wq' = wq \ {MinKey(wq)} /\ wpc = "store")
       /\ (UpdatePass /\ UpdatePass') => (wq' = wq \/ wq' = {})
       /\ (bags' # bags) => (StorePass \/ CleanupPass)
       /\ (storeTasks' \ storeTasks = {} /\ storeTasks' # storeTasks) => wpc = "store"
       /\ (updateTasks' \ updateTasks # {} /\ updUser' = updUser) =>
            (wpc = "store" \/ UpdatePass)
      ]_vars

\* the update pass of a round runs on a list that holds the task the store pass
\* of the same second wrote, while the cleanup task written with it waits
C20_Witness ==
    /\ wpc = "update" /\ wq # {}
    /\ \E t \in wq :
          /\ t[1] = now
          /\ HasBag(t[2])
          /\ BagOf(files[t[2]]).createdAt = now
          /\ files[t[2]].state = FileStateBag
          /\ t[2] \in DOMAIN cleanTasks
          /\ ~cleanTasks[t[2]].force

\* C21: no call of a pass can keep the worker for good: the worker is never in a
\* call that has no deadline and gets no answer, so every round comes to its end.
C21_NoStall == wpc # "blocked"

\* the clock has advanced before the round in which the daemon stopped answering:
\* the worker waits in GetBag of the update pass, the batch of the pass unwritten
\* and due update tasks in the queue
C21_Stalled ==
    /\ wpc = "blocked"
    /\ ticks > 0
    /\ \E t \in wq : t \in updateTasks /\ t[1] <= now /\ AsksDaemon(t)

\* C22: a listing by owner o writes either nothing or, in one step, the one-shot
\* update tasks of the keys it lists together with the refresh time now; it
\* writes exactly when the refresh time on record is at least RefreshGap seconds
\* old (none on record counts as 0) and the write succeeds.  The refresh time of
\* an owner changes only so, and a one-shot task appears only so: two refreshes
\* that enqueue for one owner are at least RefreshGap seconds apart.
C22_Refresh ==
    [][\A o \in Owners :
         LET last == LastRefresh(o)
             tasks == {<<0, fileKey(o, files[k].filePath)>> :
                          k \in {j \in DOMAIN files :
                                    j[1] = o /\ ~(files[j].state <= FileStateBag
                                                    /\ files[j].createdAt + FreeStore < now)}}
         IN /\ \A ok \in BOOLEAN :
                 ListFilesByUser(o, ok) =>
                    IF ok /\ now - last >= RefreshGap
                       THEN /\ updateTasks' = updateTasks \cup tasks
                            /\ o \in DOMAIN updUser' /\ updUser'[o] = now
                            /\ UNCHANGED <<files, bags, storeTasks, cleanTasks>>
                       ELSE UNCHANGED dbVars
            /\ (o \in DOMAIN updUser' /\ LastRefresh(o)' # last) =>
                  /\ now - last >= RefreshGap
                  /\ updUser'[o] = now
                  /\ updateTasks' = updateTasks \cup tasks
            /\ o \in DOMAIN updUser => o \in DOMAIN updUser'
            /\ (\E t \in updateTasks' \ updateTasks : t[1] = 0 /\ t[2][1] = o) =>
                  LastRefresh(o)' # last
      ]_vars

\* The owner listed at 1000, with no files; the clock went on by RefreshGap - 1;
\* then a file was uploaded and the owner listed again (the third request can be
\* nothing else): no one-shot task for the file, the refresh time still the first.
C22_Witness ==
    /\ reqs = MaxRequests
    /\ resp = "ok"
    /\ \E k \in DOMAIN files :
          /\ files[k].createdAt = now
          /\ k[1] \in DOMAIN updUser
          /\ now - updUser[k[1]] = RefreshGap - 1
          /\ <<0, k>> \notin updateTasks
          /\ k \in storeTasks

\* C23: a listing whose refresh fails (the store's read, the parse or the write)
\* still answers with success and with the list it had built, and it changes no
\* file record nor anything else in the store.
C23_RefreshFails ==
    [][\A o \in Owners :
         ListFilesByUser(o, FALSE) =>
            /\ resp' = "ok"
            /\ ListedKeys(o)' = ListedKeys(o)
            /\ files' = files
            /\ UNCHANGED dbVars
      ]_vars

\* The third request is a listing; the owner has a record to list and no refresh
\* time on record, so every refresh of that owner has failed.
C23_Witness ==
    /\ reqs = MaxRequests
    /\ resp = "ok"
    /\ creating = {} /\ removing = {}
    /\ \E k \in DOMAIN files :
          /\ k[1] \notin DOMAIN updUser
          /\ fileKey(k[1], files[k].filePath) \in ListedKeys(k[1])
          /\ \A j \in DOMAIN files : j[1] = k[1]
    /\ updateTasks = {}

\* C24: the cleanup task that a store pass writes when it turns a New record into
\* a Bagged one is not forced and is due at the record's createdAt plus FreeStore,
\* the instant from which a listing hides the record.
C24_CleanupAtExpiry ==
    [][\A k \in Keys :
         (/\ wpc = "store"
          /\ k \in DOMAIN files /\ files[k].state = FileStateNew
          /\ k \in DOMAIN files' /\ files'[k].state = FileStateBag) =>
            /\ k \in DOMAIN cleanTasks'
            /\ ~cleanTasks'[k].force
            /\ cleanTasks'[k].execAt = files'[k].createdAt + FreeStore
      ]_vars

\* A Bagged record that a listing already hides (its createdAt plus FreeStore has
\* passed) while its cleanup task, counted from the bag's createdAt, is not due.
C24_HiddenNotDue ==
    \E k \in DOMAIN files :
        /\ files[k].state = FileStateBag
        /\ Hidden(files[k])
        /\ k \in DOMAIN cleanTasks
        /\ ~cleanTasks[k].force
        /\ \E b \in files[k].bag : cleanTasks[k].execAt = b.createdAt + FreeStore
        /\ cleanTasks[k].execAt > now

\* C25: no two file records have the same owner address and the same file path.
C25_UniquePath ==
    \A j \in DOMAIN files, k \in DOMAIN files :
        (files[j].ownerAddr = files[k].ownerAddr /\ files[j].filePath = files[k].filePath)
            => j = k

\* Two records of one owner with one file path: the second was uploaded under its
\* own name, its content gave the root hash of the first one's bag, and the store
\* pass gave it the path on record for that bag.
C25_SharedPath ==
    \E j \in DOMAIN files, k \in DOMAIN files :
        /\ j # k
        /\ files[j].ownerAddr = files[k].ownerAddr
        /\ files[j].filePath = files[k].filePath
        /\ files[j].filePath = j[2]
        /\ files[k].filePath # k[2]
        /\ HasBag(j) /\ HasBag(k)
        /\ BagOf(files[j]).rootHash = BagOf(files[k]).rootHash
        /\ bags[BagOf(files[k]).rootHash].usages = 2

\* C26: a store pass that comes to the store task of a record already Bagged or
\* Stored changes nothing but that store task, which it deletes when its batch is
\* written: records, bags with their usage counts, cleanup tasks, update tasks and
\* the files on disk stay as they are, and no removal on disk follows.
C26_StoreTaskOfBagged ==
    [][(/\ wpc = "store"
        /\ wq # {}
        /\ MinKey(wq) \in DOMAIN files
        /\ files[MinKey(wq)].state >= FileStateBag) =>
           /\ UNCHANGED <<files, bags, cleanTasks, updateTasks, updUser, disk>>
           /\ storeTasks' \in {storeTasks, storeTasks \ {MinKey(wq)}}
           /\ wpc' # "store_remove"
           /\ wcur' = NoCur
      ]_vars

\* The store pass is over, nothing of the update pass is written yet, and a Stored
\* record that had a store task has none; the rest of its store is as it was.
C26_Witness ==
    /\ wpc = "update"
    /\ toUpd = <<>>
    /\ \E k \in DOMAIN files :
          /\ files[k].state = FileStateStored
          /\ k \notin storeTasks
          /\ bags[BagOf(files[k]).rootHash].usages = 1
          /\ <<k[1], k[2]>> \in disk
          /\ k \notin DOMAIN cleanTasks

\* C27: CompleteUpdateTasks called a second time with the same results leaves
\* every record and the update tasks as the first call left them.
C27_SecondApplication ==
    [][(wpc = "update" /\ wq = {} /\ wcur.kind = "applied") =>
           /\ files' = files
           /\ updateTasks' = updateTasks
      ]_vars

\* The results were applied twice: one of them made a record Stored and put the
\* successor of its task in place of the task.
C27_Witness ==
    /\ wpc = "update"
    /\ wcur.kind = "applied"
    /\ wcur.times = 2
    /\ \E t \in DOMAIN toUpd :
          /\ toUpd[t].providerInfo # {}
          /\ toUpd[t].nextExecAt # NoTime
          /\ toUpd[t].key \in DOMAIN files
          /\ files[toUpd[t].key].state = FileStateStored
          /\ files[toUpd[t].key].provider = toUpd[t].providerInfo
          /\ <<toUpd[t].nextExecAt, toUpd[t].key>> \in updateTasks
          /\ t \notin updateTasks

\* C28: a file record that does not parse stays as it is through every pass, and
\* so do the store task and the cleanup task of its key; a cleanup task that does
\* not parse stays as it is through the cleanup pass and is never in its list.
\* The pass goes on: the store and cleanup loops continue with the rest of their
\* list, the cleanup pass gets every due task that parses, and the update pass
\* has a result for every task of its list.
C28_Unparseable ==
    [][/\ \A k \in Keys :
            (k \in DOMAIN files /\ ~Parses(files[k])) =>
               /\ k \in DOMAIN files' /\ files'[k] = files[k]
               /\ k \in storeTasks => k \in storeTasks'
               /\ k \in DOMAIN cleanTasks =>
                     k \in DOMAIN cleanTasks' /\ cleanTasks'[k] = cleanTasks[k]
       /\ \A k \in Keys :
            (/\ k \in DOMAIN cleanTasks /\ ~Parses(cleanTasks[k])
             /\ wpc \in {"cleanup", "cleanup_removeBag"}) =>
               k \in DOMAIN cleanTasks' /\ cleanTasks'[k] = cleanTasks[k]
       /\ (/\ wpc = "store" /\ wq # {}
           /\ MinKey(wq) \in DOMAIN files /\ ~Parses(files[MinKey(wq)])) =>
              /\ UNCHANGED dbVars
              /\ IF wq \ {MinKey(wq)} # {}
                    THEN wpc' = "store" /\ wq' = wq \ {MinKey(wq)}
                    ELSE wpc' \in {"cleanup", "update", "idle"}
       /\ (/\ wpc = "cleanup" /\ wq # {}
           /\ MinCleanupTask(wq).key \in DOMAIN files
           /\ ~Parses(files[MinCleanupTask(wq).key])) =>
              /\ UNCHANGED dbVars
              /\ IF wq \ {MinCleanupTask(wq)} # {}
                    THEN wpc' = "cleanup" /\ wq' = wq \ {MinCleanupTask(wq)}
                    ELSE wpc' \in {"update", "idle"}
       /\ (/\ wpc \in {"idle", "store", "store_remove"}
           /\ wpc' \in {"cleanup", "update", "idle"}
           /\ wpc' # wpc) =>
              LET due == {[key |-> k, force |-> cleanTasks'[k].force] :
                             k \in {j \in DOMAIN cleanTasks' :
                                       /\ "execAt" \in DOMAIN cleanTasks'[j]
                                       /\ now' > cleanTasks'[j].execAt}}
              IN IF due = {} THEN wpc' # "cleanup" ELSE wpc' = "cleanup" /\ wq' = due
       /\ (wpc = "update" /\ wq # {}) => DOMAIN toUpd' = wq
      ]_vars

\* A round is over.  The record of a does not parse and a still has its store
\* task and a cleanup task that does not parse; b, which comes after a in the
\* store pass's list, was bagged by that pass.
C28_Witness ==
    /\ wpc = "idle"
    /\ \E a \in DOMAIN files, b \in DOMAIN files :
          /\ ~Parses(files[a])
          /\ a \in storeTasks
          /\ a \in DOMAIN cleanTasks /\ ~Parses(cleanTasks[a])
          /\ KeyLess(a, b)
          /\ Parses(files[b])
          /\ files[b].state = FileStateBag
          /\ b \notin storeTasks
          /\ b \in DOMAIN cleanTasks
          /\ Parses(cleanTasks[b])
          /\ cleanTasks[b].execAt = now + FreeStore

\* the price of one proving interval in whole nano (sizes are whole quarters of a
\* megabyte, intervals whole hours), the seconds left of the running interval and
\* the seconds the balance pays for, of the call in wcur
C29_Price ==
    ((wcur.fullSize \div (BytesPerMB \div 4)) * wcur.ratePerMB
        * (wcur.maxSpan \div SecondsPerHour)) \div (4 * 24)

C29_Remaining ==
    IF now - wcur.lastProofAt < wcur.maxSpan
       THEN wcur.maxSpan - (now - wcur.lastProofAt)
       ELSE 0

C29_Total == C29_Remaining + (wcur.balance \div C29_Price) * wcur.maxSpan

\* C29 as stated: the result is "Expired" only when the price of an interval is
\* 0, and otherwise it gives exactly the seconds left of the running interval
\* plus the whole intervals the balance pays for.
C29_ExactSeconds ==
    wcur.kind = "left" =>
       /\ wcur.left.text = "Expired" => C29_Price = 0
       /\ wcur.left.text # "Expired" =>
             wcur.left.days * SecondsPerDay + wcur.left.hours * SecondsPerHour = C29_Total

\* C29, amended: the result is "Expired" exactly when the price of an interval,
\* in whole nano, is 0; otherwise it gives the whole days and the whole hours of
\* the seconds left of the running interval plus the whole intervals the balance
\* pays for, less than an hour short of that sum.  A balance under the price of
\* one interval gives the days and hours left of the running interval.
C29_DaysAndHours ==
    wcur.kind = "left" =>
       /\ wcur.left.text = "Expired" <=> C29_Price = 0
       /\ wcur.left.text # "Expired" =>
             LET shown == wcur.left.days * SecondsPerDay + wcur.left.hours * SecondsPerHour
             IN /\ wcur.left.hours \in 0..23
                /\ wcur.left.days >= 0
                /\ shown <= C29_Total
                /\ C29_Total < shown + SecondsPerHour
                /\ wcur.balance < C29_Price =>
                      shown <= C29_Remaining /\ C29_Remaining < shown + SecondsPerHour

\* The balance is under the price of one interval, the last proof is one second
\* old: the result is not "Expired" and shows one second less than the interval
\* as the hour below it.
C29_Witness ==
    /\ wcur.kind = "left"
    /\ C29_Price > 0
    /\ wcur.balance < C29_Price
    /\ now - wcur.lastProofAt = 1
    /\ wcur.maxSpan = SecondsPerDay
    /\ wcur.left = [text |-> "Days Hours", days |-> 0, hours |-> 23]

\* C30: a file record written as JSON and read back has the state, the owner,
\* the file path, the contract address, the bag (root hash, merkle hash, full
\* size, piece size) and the provider info it was written with, whether New,
\* Bagged or Stored, with ErrorSince set or not.
C30_RoundTrip ==
    wcur.kind = "read" =>
       /\ wcur.got.State = wcur.fileData.State
       /\ wcur.got.OwnerAddr = wcur.fileData.OwnerAddr
       /\ wcur.got.FilePath = wcur.fileData.FilePath
       /\ wcur.got.ContractAddr = wcur.fileData.ContractAddr
       /\ wcur.got.Bag = wcur.fileData.Bag
       /\ wcur.got.Provider = wcur.fileData.Provider

\* A New record whose file path holds a byte that is not UTF-8, read back with
\* U+FFFD in its place and everything else as written.
C30_NameCoerced ==
    /\ wcur.kind = "read"
    /\ wcur.fileData.State = FileStateNew
    /\ wcur.fileData.FilePath = <<"a", "xFF">>
    /\ wcur.got.FilePath = <<"a", "U+FFFD">>
    /\ wcur.got = [wcur.fileData EXCEPT !.FilePath = <<"a", "U+FFFD">>]

\* C31: every store task belongs to an existing file record, and the worker
\* goroutine is never ended by a store task whose record is gone.
C31_StoreTaskHasRecord ==
    /\ \A k \in storeTasks : k \in DOMAIN files
    /\ wpc # "crashed"

\* A New record was removed by a forced cleanup while its store task stayed;
\* the next store pass read no record for the task and the goroutine ended.
C31_Crashed ==
    /\ wpc = "crashed"
    /\ \E k \in storeTasks : k \notin DOMAIN files /\ k \notin DOMAIN cleanTasks

\* C32: a forced cleanup task stays forced until it is processed, and the step
\* that takes it away takes the record away with it.
C32_ForcedKept ==
    [][\A k \in Keys :
         (k \in DOMAIN cleanTasks /\ cleanTasks[k].force) =>
            /\ k \in DOMAIN cleanTasks' => cleanTasks'[k].force
            /\ k \notin DOMAIN cleanTasks' => k \notin DOMAIN files'
      ]_vars

\* Two requests, the second answered "ok", for a record that is now Bagged with a
\* cleanup task that is not forced and due only after the grace period.
C32_Replaced ==
    /\ reqs = 2
    /\ resp = "ok"
    /\ removing = {}
    /\ updUser = Empty
    /\ \E k \in DOMAIN files :
          /\ DOMAIN files = {k}
          /\ files[k].state = FileStateBag
          /\ k \in DOMAIN cleanTasks
          /\ ~cleanTasks[k].force
          /\ cleanTasks[k].execAt > now

\* ---------------------------------------------------------------------------
\* Deletion requests against a daemon that never makes the update pass ask for
\* cleanup: every forced cleanup task then comes from RemoveFile.

\* the bag and the contract are there; only transport errors happen
QuietOutcomes == {"bagError", "chainError", "infoError", "active"}

NextRemove ==
    \/ reqs < UpdateRequests /\ \E k \in Keys : StoreFile(k)
    \/ \E r \in creating, ok \in BOOLEAN : StoreFileInfoWrite(r, ok)
    \/ reqs < UpdateRequests /\ \E k \in Keys : RemoveFile(k)
    \/ \E k \in removing, ok \in BOOLEAN : CreateCleanTask(k, ok)
    \/ reqs < UpdateRequests /\ \E o \in Owners, ok \in BOOLEAN : ListFilesByUser(o, ok)
    \/ worker
    \/ \E bagged \in BOOLEAN, h \in BagHashes, ok \in BOOLEAN : doStore(bagged, h, ok)
    \/ \E ok \in BOOLEAN : doStoreRemove(ok)
    \/ \E ok \in BOOLEAN : doCleanup(ok)
    \/ \E ok \in BOOLEAN : doCleanupRemoveBag(ok)
    \/ \E env \in UpdateEnvs(QuietOutcomes) : doUpdate(env)
    \/ \E ok \in BOOLEAN : doUpdateCommit(ok)
    \/ \E d \in ClockSteps : Tick(d)

SpecRemove == Init /\ [][NextRemove]_vars

\* C33: with forced cleanup tasks coming from deletion requests only, no step
\* removes a record that is Stored when the step is taken.
C33_StoredKept ==
    [][\A k \in Keys :
         (k \in DOMAIN files /\ files[k].state = FileStateStored) =>
            k \in DOMAIN files'
      ]_vars

\* The deletion was accepted while the record was Bagged, the update pass of the
\* same round made it Stored and scheduled the long poll, and the cleanup pass
\* one second later removed it: the long poll is pending for a key with no
\* record and no cleanup task.
C33_StoredRemoved ==
    /\ now = 1000 + 1
    /\ \E k \in Keys :
          /\ k \notin DOMAIN files
          /\ k \notin DOMAIN cleanTasks
          /\ k \notin storeTasks
          /\ <<1000 + LongInterval, k>> \in updateTasks

\* C34: every record that is Bagged or Stored has a pending update task or a
\* pending forced cleanup task.
C34_Followed ==
    \A k \in DOMAIN files :
        files[k].state \in {FileStateBag, FileStateStored} =>
            \/ \E t \in updateTasks : t[2] = k
            \/ k \in DOMAIN cleanTasks /\ cleanTasks[k].force

\* The provider has refused the bag for longer than the grace period, the write
\* of the forced cleanup task failed, and the update task was dropped all the
\* same: a Stored record that no task will ever look at again.
C34_Abandoned ==
    /\ wpc = "idle"
    /\ \E k \in DOMAIN files :
          /\ files[k].state = FileStateStored
          /\ ErrorExpired(files[k])
          /\ k \notin DOMAIN cleanTasks
          /\ k \notin storeTasks
          /\ ~ \E t \in updateTasks : t[2] = k

\* C35: the file path of every record is the name in the key it is stored under.
C35_PathIsName ==
    \A k \in DOMAIN files : files[k].filePath = k[2]

\* A record that got the path of a bag created for another name, and went on to
\* Stored with it.
C35_OtherName ==
    \E k \in DOMAIN files :
        /\ files[k].state = FileStateStored
        /\ files[k].provider # {}
        /\ files[k].filePath # k[2]

\* ---------------------------------------------------------------------------
\* The worker under fairness.  The ticker fires for as long as the process runs,
\* so the goroutine always takes its next step; the store answers the cleanup
\* pass in the end.  Nothing is assumed about the daemon, the chain or the
\* provider: whether CreateBag answers is free in every round.

WorkerStep ==
    \/ worker
    \/ \E bagged \in BOOLEAN, h \in BagHashes, ok \in BOOLEAN : doStore(bagged, h, ok)
    \/ \E ok \in BOOLEAN : doStoreRemove(ok)
    \/ \E ok \in BOOLEAN : doCleanup(ok)
    \/ \E ok \in BOOLEAN : doCleanupRemoveBag(ok)
    \/ \E env \in UpdateEnvs(QuietOutcomes) : doUpdate(env)
    \/ \E ok \in BOOLEAN : doUpdateCommit(ok)

\* a handler that has read the store goes on to its write
HandlerStep ==
    \/ \E r \in creating, ok \in BOOLEAN : StoreFileInfoWrite(r, ok)
    \/ \E k \in removing, ok \in BOOLEAN : CreateCleanTask(k, ok)

FairWorker ==
    /\ WF_vars(WorkerStep)
    /\ WF_vars(HandlerStep)
    /\ SF_vars(doCleanup(TRUE))

SpecFair == Init /\ [][NextRemove]_vars /\ FairWorker

\* the grace period of the record under k has passed, counted from its creation
\* and, once it has a bag, from the creation of the bag
Overdue(k) ==
    /\ k \in DOMAIN files
    /\ files[k].state < FileStateStored
    /\ now > files[k].createdAt + FreeStore
    /\ \A b \in files[k].bag : now > b.createdAt + FreeStore

\* C36: under a fair worker and whatever the daemon answers, a record that is New
\* or Bagged after its grace period does not stay so: it is deleted, or paid for.
C36_Collected ==
    \A k \in Keys : Overdue(k) ~> ~Overdue(k)

\* A New record past its grace period with nothing in the store that would
\* remove it: its store task is all there is, and CreateBag may fail in every
\* round from here on.
C36_NewForever ==
    /\ wpc = "idle"
    /\ ticks = MaxTicks
    /\ removing = {}
    /\ \E k \in Keys :
          /\ Overdue(k)
          /\ files[k].state = FileStateNew
          /\ k \in storeTasks
          /\ k \notin DOMAIN cleanTasks

\* the upload of k is one StoreFile turns down
UploadRejected(k) == NumPending(k[1]) >= MaxPending \/ k \in DOMAIN files

\* C37: an upload that is rejected, because the record exists or because too many
\* files are pending, leaves the store and the files on disk as they were.
C37_RejectedLeavesAll ==
    [][\A k \in Keys :
         (reqs' = reqs + 1 /\ UploadRejected(k) /\ StoreFile(k)) =>
            /\ disk' = disk
            /\ UNCHANGED dbVars
      ]_vars

\* The record under k took the path of another name's bag and its own file was
\* removed; a later upload of k was answered "already exists" and left a file at
\* k's path all the same.
C37_FileOfRejected ==
    /\ resp = "already exists"
    /\ reqs = MaxRequests
    /\ creating = {}
    /\ wpc = "idle"
    /\ \E k \in DOMAIN files :
          /\ files[k].filePath # k[2]
          /\ <<k[1], files[k].filePath>> \in disk
          /\ <<k[1], k[2]>> \in disk

\* the batch of the pass holds a chain task (due time other than 0) whose
\* successor is u
ChainSuccessor(u) ==
    \E c \in DOMAIN toUpd :
        /\ c[1] # 0
        /\ c[2] = u[2]
        /\ toUpd[c].nextExecAt = u[1]

\* C38: a task with due time 0 results in no successor whatever the answers; the
\* committed batch deletes it and enqueues nothing for its key but the successor
\* of a chain task.  A task with due time 0 enters the queue only in a request;
\* any other task enters it at a store completion, due now, or as the successor
\* of a chain task.
C38_OneShot ==
    [][/\ LoopStep => \A t \in wq : t[1] = 0 => toUpd'[t].nextExecAt = NoTime
       /\ doUpdateCommit(TRUE) =>
            \A t \in DOMAIN toUpd :
               t[1] = 0 =>
                  /\ t \notin updateTasks'
                  /\ \A u \in updateTasks' \ updateTasks :
                        u[2] = t[2] => ChainSuccessor(u)
       /\ \A u \in updateTasks' \ updateTasks :
            IF u[1] = 0
               THEN reqs' = reqs + 1 /\ wpc' = wpc
               ELSE \/ wpc = "store" /\ u = <<now, MinKey(wq)>>
                    \/ wpc = "update" /\ wq = {} /\ ChainSuccessor(u)
      ]_vars

\* A one-shot task and the chain task of one key went through one pass with an
\* active contract: the chain task has its successor, the one-shot task none.
C38_Witness ==
    /\ wpc = "update"
    /\ wq = {}
    /\ \E t \in DOMAIN toUpd, c \in DOMAIN toUpd :
          /\ t[1] = 0
          /\ c[1] # 0
          /\ c[2] = t[2]
          /\ answers[t].out = "active"
          /\ toUpd[t].providerInfo # {}
          /\ toUpd[t].nextExecAt = NoTime
          /\ toUpd[c].nextExecAt = now + LongInterval

\* the pending update tasks of key k that reschedule themselves
ChainTasks(k) == {t \in updateTasks : t[2] = k /\ t[1] # 0}

\* C39: each key has at most one update task with a due time other than 0, and
\* the update queue holds no more tasks than there are records and one-shot tasks.
C39_OneChainPerKey ==
    /\ \A k \in Keys : Cardinality(ChainTasks(k)) <= 1
    /\ Cardinality(updateTasks) <=
          Cardinality(DOMAIN files) + Cardinality({t \in updateTasks : t[1] = 0})

\* The record under k was deleted while its retry was pending and k was uploaded
\* again: the store pass added the task due now beside the retry of the old
\* record, and the one record has two chains.
C39_TwoChains ==
    \E k \in DOMAIN files :
        /\ files[k].state = FileStateBag
        /\ k \notin storeTasks
        /\ Cardinality(ChainTasks(k)) = 2
        /\ \A t \in ChainTasks(k) : t[1] >= files[k].createdAt

\* ---------------------------------------------------------------------------
\* The derived views: deploy, withdraw and top-up data of one record.  Each
\* reads the record and answers; ok tells whether the contract data could be
\* computed.  GetFile returns (nil, nil) for a key with no record.

\* the handler answers a request with resp and writes nothing
Answer(r) ==
    /\ Alive
    /\ reqs < MaxRequests
    /\ reqs' = reqs + 1
    /\ resp' = r
    /\ UNCHANGED <<now, ticks, dbVars, disk, mx, creating, removing, workerVars>>

\* Service.GetDeployData
GetDeployData(k, ok) ==
    Answer(IF k \in DOMAIN files /\ ~Parses(files[k]) THEN "failed to get file info"
           ELSE IF k \notin DOMAIN files THEN "file not found"
           ELSE IF files[k].state # FileStateBag THEN "deploy not yet required"
           ELSE IF ~ok THEN "failed to get contract deploy data"
           ELSE "ok")

\* Service.GetWithdrawData: fi.State is read with no test of fi; on a nil fi the
\* handler's goroutine panics and net/http drops the connection
GetWithdrawData(k, ok) ==
    Answer(IF k \in DOMAIN files /\ ~Parses(files[k]) THEN "failed to get file info"
           ELSE IF k \notin DOMAIN files THEN "panic"
           ELSE IF files[k].state # FileStateStored THEN "contract not yet deployed"
           ELSE IF ~ok THEN "failed to get contract withdraw data"
           ELSE "ok")

\* Service.GetTopupData: as GetWithdrawData
GetTopupData(k, ok) ==
    Answer(IF k \in DOMAIN files /\ ~Parses(files[k]) THEN "failed to get file info"
           ELSE IF k \notin DOMAIN files THEN "panic"
           ELSE IF files[k].state # FileStateStored THEN "contract not yet deployed"
           ELSE IF ~ok THEN "failed to get contract topup data"
           ELSE "ok")

NextViews ==
    \/ reqs < UpdateRequests /\ \E k \in Keys : StoreFile(k)
    \/ \E r \in creating, ok \in BOOLEAN : StoreFileInfoWrite(r, ok)
    \/ reqs < UpdateRequests /\ \E k \in Keys : RemoveFile(k)
    \/ \E k \in removing, ok \in BOOLEAN : CreateCleanTask(k, ok)
    \/ \E k \in Keys, ok \in BOOLEAN : GetDeployData(k, ok)
    \/ \E k \in Keys, ok \in BOOLEAN : GetWithdrawData(k, ok)
    \/ \E k \in Keys, ok \in BOOLEAN : GetTopupData(k, ok)
    \/ worker
    \/ \E bagged \in BOOLEAN, h \in BagHashes, ok \in BOOLEAN : doStore(bagged, h, ok)
    \/ \E ok \in BOOLEAN : doStoreRemove(ok)
    \/ \E ok \in BOOLEAN : doCleanup(ok)
    \/ \E ok \in BOOLEAN : doCleanupRemoveBag(ok)
    \/ \E env \in UpdateEnvs(QuietOutcomes) : doUpdate(env)
    \/ \E ok \in BOOLEAN : doUpdateCommit(ok)
    \/ \E d \in ClockSteps : Tick(d)

SpecViews == Init /\ [][NextViews]_vars

\* the error values of the three views
ViewErrors ==
    {"failed to get file info", "file not found", "deploy not yet required",
     "contract not yet deployed", "failed to get contract deploy data",
     "failed to get contract withdraw data", "failed to get contract topup data"}

\* the step answers a view of k that succeeds only in state st, answers a key
\* with no record with an error value, and writes nothing
ViewGated(k, st) ==
    /\ resp' = "ok" => (k \in DOMAIN files /\ files[k].state = st)
    /\ k \notin DOMAIN files => resp' \in ViewErrors
    /\ UNCHANGED <<dbVars, disk>>

\* C40: the deploy data is given only for a Bagged record, the withdraw and the
\* top-up data only for a Stored one; each of the three answers a key that has no
\* record with an error value and writes nothing.
C40_Views ==
    [][\A k \in Keys, ok \in BOOLEAN :
         /\ (reqs' = reqs + 1 /\ GetDeployData(k, ok)) => ViewGated(k, FileStateBag)
         /\ (reqs' = reqs + 1 /\ GetWithdrawData(k, ok)) => ViewGated(k, FileStateStored)
         /\ (reqs' = reqs + 1 /\ GetTopupData(k, ok)) => ViewGated(k, FileStateStored)
      ]_vars

\* The withdraw or top-up data was asked for a name that has no record: the
\* request ended in a nil dereference and got no answer from the handler.
C40_Fault ==
    /\ resp = "panic"
    /\ Alive
    /\ \E k \in Keys : k \notin DOMAIN files

====
